---- MODULE Spec2Model ----
(***************************************************************************)
(* Model of the morning-briefing curation pipeline:                        *)
(*   - run_pipeline (run_pipeline.py) driving DataCollector.collect_all,   *)
(*   - DataCollector._validate_concurrent and its worker validate_one      *)
(*     (data_collector.py),                                                *)
(*   - the date helpers extract_publication_date / compute_age_hours       *)
(*     (phase1_validator.py) and _parse_search_date (data_collector.py).   *)
(* Time is counted in whole minutes since the start of the run.            *)
(***************************************************************************)
EXTENDS Integers, Sequences, FiniteSets, TLC

VARIABLES
    pc,             \* position of run_pipeline / collect_all
    clock,          \* wall clock, datetime.now(timezone.utc), in minutes
    delivery_time,  \* DataCollector.delivery_time
    max_workers,    \* DataCollector.max_workers
    candidates,     \* all_raw handed to _validate_concurrent
    submitted,      \* number of candidates submitted to the executor
    queue,          \* executor work queue (candidate indices)
    num_threads,    \* worker threads spawned by the executor
    idle_semaphore, \* executor._idle_semaphore
    worker,         \* worker[w]: candidate thread w is running, 0 when idle
    future,         \* future[c]: state and outcome of validate_one(c)
    runs,           \* runs[c]: how many times validate_one started on c
    net,            \* net[c]: what the network answered for c, and when
    buckets,        \* buckets of _validate_concurrent
    stats,          \* DataCollector.stats
    done_count,     \* done_count of the as_completed loop
    session_users,  \* threads that have called self.session.get
    raw_results,    \* keys of the dict returned by collect_all
    phase1,         \* the audit record written by run_pipeline
    v_in,           \* one call of validate_one: its candidate and its network
    v_out           \* one call of validate_one: what it returned

vars == <<pc, clock, delivery_time, max_workers, candidates, submitted, queue,
          num_threads, idle_semaphore, worker, future, runs, net, buckets,
          stats, done_count, session_users, raw_results, phase1, v_in, v_out>>

-----------------------------------------------------------------------------
(* Bounds of the model *)

NumCandidates == 2
MaxWorkers == 2
MaxClock == 1

(* Program constants *)

MAX_AGE_HOURS == 48
MinutesPerHour == 60
MinutesPerDay == 1440
MinutesPerYear == 525600

-----------------------------------------------------------------------------
(* Datetimes.  A datetime has local fields and either no tzinfo (naive) or *)
(* a UTC offset in minutes.                                                *)

Datetime(local, naive, tz) == [ok |-> TRUE, local |-> local, naive |-> naive, tz |-> tz]
NoDate == [ok |-> FALSE, local |-> 0, naive |-> TRUE, tz |-> 0]
UtcDate(t) == Datetime(t, FALSE, 0)
NaiveDate(t) == Datetime(t, TRUE, 0)

\* dt.replace(tzinfo=timezone.utc) applied to a naive datetime
AssumeUTC(d) == IF d.naive THEN Datetime(d.local, FALSE, 0) ELSE d

\* the UTC instant of an aware datetime
Instant(d) == d.local - d.tz

\* dt.isoformat(): local fields followed by the offset, when there is one
IsoFormat(d) == IF d.naive THEN <<"iso", d.local>> ELSE <<"iso", d.local, d.tz>>

\* date_parser.parse(s) of a string; parsed.ok is FALSE when it raises
DateParse(s) ==
    IF s[1] # "iso" THEN NoDate
    ELSE IF Len(s) = 2 THEN NaiveDate(s[2])
    ELSE Datetime(s[2], FALSE, s[3])

\* int(x / y) of Python: truncation toward zero
TruncDiv(x, y) == IF x >= 0 THEN x \div y ELSE -((-x) \div y)

Max(a, b) == IF a >= b THEN a ELSE b

\* compute_age_hours without the floor at zero
ComputeAgeHours_NoFloor(verified_date, dtime) ==
    LET pub_date == DateParse(verified_date) IN
    IF ~pub_date.ok THEN [has |-> FALSE, hours |-> 0]
    ELSE LET delta == dtime - Instant(AssumeUTC(pub_date)) IN
         [has |-> TRUE, hours |-> TruncDiv(delta, MinutesPerHour)]

\* compute_age_hours(verified_date, delivery_time): [has, hours]
ComputeAgeHours(verified_date, dtime) ==
    LET pub_date == DateParse(verified_date) IN
    IF ~pub_date.ok THEN [has |-> FALSE, hours |-> 0]
    ELSE LET delta == dtime - Instant(AssumeUTC(pub_date)) IN
         [has |-> TRUE, hours |-> Max(0, TruncDiv(delta, MinutesPerHour))]

-----------------------------------------------------------------------------
(* Date hints supplied by the discovery origin (candidate["search_date"]).  *)
(* kind: empty "", garbage (no parser accepts it), iso (ISO 8601 / RFC     *)
(* 2822 / bare date), relative ("N hours ago"), relative_overflow (a       *)
(* relative phrase whose amount no timedelta or datetime can hold, such as *)
(* "99999999999 days ago").                                                *)

Hint(kind, d, amount, unit) == [kind |-> kind, d |-> d, amount |-> amount, unit |-> unit]
EmptyHint == Hint("empty", NoDate, 0, "none")
GarbageHint == Hint("garbage", NoDate, 0, "none")
IsoHint(d) == Hint("iso", d, 0, "none")
RelativeHint(amount, unit) == Hint("relative", NoDate, amount, unit)
OverflowHint == Hint("relative_overflow", NoDate, 0, "day")

UnitMinutes(unit) ==
    CASE unit = "minute" -> 1
      [] unit = "hour" -> MinutesPerHour
      [] unit = "day" -> MinutesPerDay

\* _parse_search_date(date_str), with now the value datetime.now(timezone.utc)
\* returns when the relative branch reads it: [status, d], status is none,
\* date or raise
ParseSearchDate(h, now) ==
    CASE h.kind = "empty" -> [status |-> "none", d |-> NoDate]
      [] h.kind = "iso" -> [status |-> "date", d |-> AssumeUTC(h.d)]
      [] h.kind = "relative" ->
            [status |-> "date", d |-> UtcDate(now - h.amount * UnitMinutes(h.unit))]
      [] h.kind = "relative_overflow" ->
            [status |-> "raise", d |-> NoDate]   \* OverflowError of now - timedelta
      [] OTHER -> [status |-> "none", d |-> NoDate]

-----------------------------------------------------------------------------
(* Pages.  A fetched page offers, for each extraction strategy, nothing,   *)
(* a string no date parser accepts, or a date.                             *)

Absent == [kind |-> "absent", d |-> NoDate]
Malformed == [kind |-> "malformed", d |-> NoDate]
Dated(d) == [kind |-> "date", d |-> d]

Page(meta, jsonld, timetag, visible) ==
    [meta |-> meta, jsonld |-> jsonld, timetag |-> timetag, visible |-> visible]

\* a strategy whose date_parser.parse raises swallows the exception
ParsedOrNothing(content) == IF content.kind = "date" THEN content.d ELSE NoDate

extract_date_from_meta(page) == ParsedOrNothing(page.meta)
extract_date_from_jsonld(page) == ParsedOrNothing(page.jsonld)
extract_date_from_time_tag(page) == ParsedOrNothing(page.timetag)

YearOf(t) == t \div MinutesPerYear

\* the sanity check keeps a date of this year or of the last one
extract_date_from_visible_text(page, now) ==
    LET parsed == ParsedOrNothing(page.visible) IN
    IF parsed.ok /\ YearOf(parsed.local) >= YearOf(now) - 1 THEN parsed ELSE NoDate

\* extract_publication_date(html, url): the first strategy that yields a date
extract_publication_date(page, now) ==
    LET found == <<extract_date_from_meta(page), extract_date_from_jsonld(page),
                   extract_date_from_time_tag(page),
                   extract_date_from_visible_text(page, now)>>
        hits == {i \in 1..4 : found[i].ok}
    IN IF hits = {} THEN NoDate
       ELSE AssumeUTC(found[CHOOSE i \in hits : \A j \in hits : i <= j])

-----------------------------------------------------------------------------
(* validate_one *)

NoAge == [has |-> FALSE, hours |-> 0]

Outcome(category, verdict, age, d, method, error) ==
    [raised |-> FALSE, category |-> category, verdict |-> verdict,
     has_age |-> age.has, age_hours |-> age.hours, date |-> d,
     date_method |-> method, error |-> error]

\* the exception left validate_one: future.result() raises it
Raised(exc) ==
    [raised |-> TRUE, category |-> "none", verdict |-> "none",
     has_age |-> FALSE, age_hours |-> 0, date |-> NoDate,
     date_method |-> "none", error |-> exc]

ErrorOutcome(reason) == Outcome("error", "REJECT", NoAge, NoDate, "none", reason)

\* the age gate with a strict comparison
FreshEnough_Strict(age) == age.has /\ age.hours < MAX_AGE_HOURS

\* age is not None and age <= MAX_AGE_HOURS
FreshEnough(age) == age.has /\ age.hours <= MAX_AGE_HOURS

\* the age gate applied to a date that was obtained
DatedOutcome(d, method, dtime) ==
    LET age == ComputeAgeHours(IsoFormat(d), dtime) IN
    IF FreshEnough(age)
    THEN Outcome("valid", "PASS", age, d, method, "none")
    ELSE Outcome("stale", "REJECT", age, d, method, "none")

\* a try block that prefers the hint whenever the hint denotes a date
TryBody_HintFirst(c, n, dtime) ==
    LET pub_date == extract_publication_date(n.page, n.now)
        fallback == ParseSearchDate(c.hint, n.now)
    IN CASE fallback.status = "raise" ->
                [exc |-> "OverflowError", out |-> Raised("OverflowError")]
         [] fallback.status = "date" ->
                [exc |-> "none",
                 out |-> DatedOutcome(fallback.d, "search_result_fallback", dtime)]
         [] pub_date.ok ->
                [exc |-> "none", out |-> DatedOutcome(pub_date, "page", dtime)]
         [] OTHER ->
                [exc |-> "none",
                 out |-> Outcome("unverified", "REJECT", NoAge, NoDate, "none", "none")]

\* the body of the try block once the response is in hand; an exception that
\* escapes it is reported in the field exc
TryBody(c, n, dtime) ==
    LET pub_date == extract_publication_date(n.page, n.now) IN
    IF pub_date.ok
    THEN [exc |-> "none", out |-> DatedOutcome(pub_date, "page", dtime)]
    ELSE LET fallback == IF c.hint.kind # "empty"
                         THEN ParseSearchDate(c.hint, n.now)
                         ELSE [status |-> "none", d |-> NoDate]
         IN CASE fallback.status = "raise" ->
                    [exc |-> "OverflowError", out |-> Raised("OverflowError")]
              [] fallback.status = "date" ->
                    [exc |-> "none",
                     out |-> DatedOutcome(fallback.d, "search_result_fallback", dtime)]
              [] OTHER ->
                    [exc |-> "none",
                     out |-> Outcome("unverified", "REJECT", NoAge, NoDate, "none", "none")]

\* validate_one without its catch-all clause
ExceptClauses_OnlyRequest == {"RequestException"}

\* the except clauses of validate_one: RequestException, then Exception
ExceptClauses == {"RequestException", "Exception"}

\* a validate_one that goes on to fetch the wrapper URL it could not resolve
ValidateOne_FetchesWrapper(c, n, dtime) ==
    IF n.fetch # "ok"
    THEN ErrorOutcome(n.fetch)
    ELSE LET body == TryBody(c, n, dtime) IN
         IF body.exc = "none" THEN body.out ELSE ErrorOutcome(body.exc)

\* validate_one(candidate) with the network answering n
ValidateOne(c, n, dtime) ==
    IF c.wrapper /\ n.resolve = "unresolved"
    THEN ErrorOutcome("Could not resolve Google News redirect")
    ELSE IF n.fetch # "ok"
    THEN IF "RequestException" \in ExceptClauses
         THEN ErrorOutcome(n.fetch) ELSE Raised(n.fetch)
    ELSE LET body == TryBody(c, n, dtime) IN
         IF body.exc = "none" THEN body.out
         ELSE IF "Exception" \in ExceptClauses
         THEN ErrorOutcome(body.exc) ELSE Raised(body.exc)

\* whether validate_one called self.session.get (the redirect follow of the
\* resolver, or the fetch)
TouchesSession(c, n) ==
    \/ c.wrapper /\ n.resolve \in {"followed", "unresolved"}
    \/ n.fetch # "none"

\* whether validate_one reads datetime.now(): in the sanity check of the
\* visible-text strategy, and in the relative branch of _parse_search_date
ReadsClock(c, n) ==
    /\ n.fetch = "ok"
    /\ \/ /\ n.page.visible.kind = "date"
          /\ ~extract_date_from_meta(n.page).ok
          /\ ~extract_date_from_jsonld(n.page).ok
          /\ ~extract_date_from_time_tag(n.page).ok
       \/ /\ c.hint.kind = "relative"
          /\ ~extract_date_from_meta(n.page).ok
          /\ ~extract_date_from_jsonld(n.page).ok
          /\ ~extract_date_from_time_tag(n.page).ok
          /\ (n.page.visible.kind = "date" => ~extract_date_from_visible_text(n.page, n.now).ok)

-----------------------------------------------------------------------------
(* Inputs *)

AgeLimit == MAX_AGE_HOURS * MinutesPerHour

Candidate(wrapper, hint) == [wrapper |-> wrapper, hint |-> hint]

NoPage == Page(Absent, Absent, Absent, Absent)

NoNet == [resolve |-> "none", fetch |-> "none", page |-> NoPage, now |-> 0]

Net(resolve, fetch, page, now) ==
    [resolve |-> resolve, fetch |-> fetch, page |-> page, now |-> now]

\* what the network can answer for candidate c when it is validated at now:
\* the resolver's outcome for a wrapper URL, then a failed fetch or a page
NetChoices(c, resolutions, failures, pages, now) ==
    LET resolves == IF c.wrapper THEN resolutions ELSE {"none"} IN
    UNION { IF r = "unresolved"
            THEN {Net(r, "none", NoPage, now)}
            ELSE {Net(r, f, NoPage, now) : f \in failures}
                 \cup {Net(r, "ok", p, now) : p \in pages}
          : r \in resolves }

FetchFailures == {"timeout", "http_error"}

\* resolve_google_news_url: the URL is decoded from the path, found by
\* following the redirect or reading the redirect page, or not found
Resolutions == {"decoded", "followed", "unresolved"}

\* dates a page or a hint may carry: on both sides of the age limit, in the
\* future, naive, and with a UTC offset
AllDates ==
    { UtcDate(-AgeLimit), NaiveDate(-AgeLimit - MinutesPerHour + 1),
      Datetime(-AgeLimit, FALSE, MinutesPerHour), UtcDate(-MinutesPerHour),
      UtcDate(MinutesPerHour + MinutesPerHour \div 2),
      Datetime(0, FALSE, -MinutesPerHour) }

AncientDate == UtcDate(-3 * MinutesPerYear)

SlotContents == {Absent, Malformed} \cup {Dated(d) : d \in AllDates \cup {AncientDate}}

\* the pages with at most two strategies offered anything
AllPages ==
    {Page(x, y, Absent, Absent) : x \in SlotContents, y \in SlotContents}
    \cup {Page(x, Absent, y, Absent) : x \in SlotContents, y \in SlotContents}
    \cup {Page(x, Absent, Absent, y) : x \in SlotContents, y \in SlotContents}
    \cup {Page(Absent, x, y, Absent) : x \in SlotContents, y \in SlotContents}
    \cup {Page(Absent, x, Absent, y) : x \in SlotContents, y \in SlotContents}
    \cup {Page(Absent, Absent, x, y) : x \in SlotContents, y \in SlotContents}

AllHints ==
    {EmptyHint, GarbageHint, OverflowHint,
     RelativeHint(MAX_AGE_HOURS + 1, "hour"), RelativeHint(2, "day"),
     RelativeHint(AgeLimit + MinutesPerHour, "minute")}
    \cup {IsoHint(d) : d \in AllDates}

AllCandidates == {Candidate(w, h) : w \in BOOLEAN, h \in AllHints}

\* the candidates and pages of the pipeline runs
PoolCandidates ==
    { Candidate(FALSE, EmptyHint), Candidate(TRUE, EmptyHint),
      Candidate(FALSE, RelativeHint(MAX_AGE_HOURS + 1, "hour")),
      Candidate(FALSE, OverflowHint) }

PoolPages == {NoPage, Page(Malformed, Dated(UtcDate(-AgeLimit)), Absent, Absent)}

PoolFailures == {"timeout"}

PoolResolutions == {"decoded", "unresolved"}

CandidateLists == UNION {[1..k -> PoolCandidates] : k \in 0..NumCandidates}

-----------------------------------------------------------------------------
(* The pipeline: run_pipeline, collect_all and _validate_concurrent *)

Ids == 1..NumCandidates
Total == Len(candidates)

NoOutcome == Outcome("none", "none", NoAge, NoDate, "none", "none")
NewFuture == [state |-> "new", out |-> NoOutcome]

EmptyBuckets == [valid |-> <<>>, stale |-> <<>>, unverified |-> <<>>, error |-> <<>>]
ZeroStats == [valid |-> 0, stale |-> 0, unverified |-> 0, error |-> 0, total_validated |-> 0]
NoPhase1 == [saved |-> FALSE, total_candidates |-> 0, valid |-> 0, stale_rejected |-> 0,
             unverified_rejected |-> 0, error |-> 0]
NoCall == [c |-> Candidate(FALSE, EmptyHint), n |-> NoNet, dtime |-> 0]

\* keys of the dict collect_all returns
CollectAllKeys ==
    {"delivery_time", "valid_articles", "stale_articles", "unverified_articles",
     "error_articles", "noteworthy_x", "ticket_watch", "stats"}

\* keys of raw_results that build_phase1_json subscripts
BuildPhase1Reads ==
    {"delivery_time", "valid_articles", "stale_articles", "unverified_articles",
     "error_articles", "from_x", "ticket_watch"}

Init ==
    /\ pc = "start"
    /\ clock = 0
    /\ delivery_time = 0
    /\ max_workers \in 1..MaxWorkers
    /\ candidates = <<>>
    /\ submitted = 0
    /\ queue = <<>>
    /\ num_threads = 0
    /\ idle_semaphore = 0
    /\ worker = [w \in Ids |-> 0]
    /\ future = [c \in Ids |-> NewFuture]
    /\ runs = [c \in Ids |-> 0]
    /\ net = [c \in Ids |-> NoNet]
    /\ buckets = EmptyBuckets
    /\ stats = ZeroStats
    /\ done_count = 0
    /\ session_users = {}
    /\ raw_results = {}
    /\ phase1 = NoPhase1
    /\ v_in = NoCall
    /\ v_out = NoOutcome

pool_vars == <<submitted, queue, num_threads, idle_semaphore, worker, future, runs, net,
               session_users>>
gather_vars == <<buckets, stats, done_count>>
call_vars == <<v_in, v_out>>

\* DataCollector(max_workers=max_workers)
Construct ==
    /\ pc = "start"
    /\ pc' = "collect"
    /\ delivery_time' = clock
    /\ stats' = ZeroStats
    /\ UNCHANGED <<clock, max_workers, candidates, pool_vars, buckets, done_count,
                   raw_results, phase1, call_vars>>

\* collect_all up to the call of _validate_concurrent: the sources are read,
\* merged and deduplicated into all_raw
CollectSources ==
    /\ pc = "collect"
    /\ \E list \in CandidateLists :
          /\ candidates' = list
          /\ pc' = IF Len(list) = 0 THEN "gather" ELSE "submit"
    /\ buckets' = EmptyBuckets
    /\ UNCHANGED <<clock, delivery_time, max_workers, pool_vars, stats, done_count,
                   raw_results, phase1, call_vars>>

\* a pool that starts a thread for every task that finds no idle thread
SpawnsThread_Unbounded(idle, threads, limit) == idle = 0

\* ThreadPoolExecutor._adjust_thread_count: a thread is started for a submitted
\* task when no thread is idle and fewer than max_workers threads exist
SpawnsThread(idle, threads, limit) == idle = 0 /\ threads < limit

\* executor.submit(validate_one, c) for the next candidate
Submit ==
    /\ pc = "submit"
    /\ submitted < Total
    /\ LET c == submitted + 1 IN
          /\ submitted' = c
          /\ queue' = Append(queue, c)
          /\ future' = [future EXCEPT ![c].state = "queued"]
          /\ pc' = IF c = Total THEN "gather" ELSE "submit"
    /\ IF SpawnsThread(idle_semaphore, num_threads, max_workers)
       THEN num_threads' = num_threads + 1 /\ UNCHANGED idle_semaphore
       ELSE /\ idle_semaphore' = IF idle_semaphore > 0 THEN idle_semaphore - 1 ELSE 0
            /\ UNCHANGED num_threads
    /\ UNCHANGED <<clock, delivery_time, max_workers, candidates, worker, runs, net,
                   session_users, gather_vars, raw_results, phase1, call_vars>>

\* a worker thread takes the next work item and starts validate_one on it
Take(w) ==
    /\ pc \in {"submit", "gather"}
    /\ w <= num_threads
    /\ worker[w] = 0
    /\ queue # <<>>
    /\ LET c == Head(queue) IN
          /\ worker' = [worker EXCEPT ![w] = c]
          /\ future' = [future EXCEPT ![c].state = "running"]
          /\ runs' = [runs EXCEPT ![c] = @ + 1]
    /\ queue' = Tail(queue)
    /\ UNCHANGED <<pc, clock, delivery_time, max_workers, candidates, submitted,
                   num_threads, idle_semaphore, net, session_users, gather_vars,
                   raw_results, phase1, call_vars>>

\* validate_one runs to its return (or to the exception that leaves it) and
\* the thread goes back to the work queue.  When validate_one reads the wall
\* clock, the clock has moved on to some t by then.
Finish(w) ==
    /\ pc \in {"submit", "gather"}
    /\ worker[w] # 0
    /\ LET c == worker[w] IN
       \E a \in NetChoices(candidates[c], PoolResolutions, PoolFailures, PoolPages, 0) :
       \E t \in (IF ReadsClock(candidates[c], a) THEN clock..MaxClock ELSE {clock}) :
          LET n == IF ReadsClock(candidates[c], a) THEN [a EXCEPT !.now = t] ELSE a IN
          /\ clock' = t
          /\ net' = [net EXCEPT ![c] = n]
          /\ future' = [future EXCEPT
                          ![c] = [state |-> "done",
                                  out |-> ValidateOne(candidates[c], n, delivery_time)]]
          /\ session_users' = IF TouchesSession(candidates[c], n)
                              THEN session_users \cup {w} ELSE session_users
    /\ worker' = [worker EXCEPT ![w] = 0]
    /\ idle_semaphore' = idle_semaphore + 1
    /\ UNCHANGED <<pc, delivery_time, max_workers, candidates, submitted, queue,
                   num_threads, runs, gather_vars, raw_results, phase1, call_vars>>

\* a loop that only counts errors and unverified results
BucketsWith_Silent(b, category, entry) ==
    IF category \in {"error", "unverified"} THEN b
    ELSE [b EXCEPT ![category] = Append(@, entry)]

\* buckets[category].append(result)
BucketsWith(b, category, entry) == [b EXCEPT ![category] = Append(@, entry)]

\* one turn of the as_completed loop
Gather(c) ==
    /\ pc = "gather"
    /\ c <= Total
    /\ future[c].state = "done"
    /\ future' = [future EXCEPT ![c].state = "collected"]
    /\ done_count' = done_count + 1
    /\ LET out == future[c].out IN
       IF out.raised
       THEN /\ stats' = [stats EXCEPT !.error = @ + 1]
            /\ UNCHANGED buckets
       ELSE /\ buckets' = BucketsWith(buckets, out.category, [id |-> c, res |-> out])
            /\ stats' = [stats EXCEPT ![out.category] = @ + 1]
    /\ UNCHANGED <<pc, clock, delivery_time, max_workers, candidates, submitted, queue,
                   num_threads, idle_semaphore, worker, runs, net, session_users,
                   raw_results, phase1, call_vars>>

\* the with block ends, _validate_concurrent returns its buckets and
\* collect_all returns its dict
ReturnCollectAll ==
    /\ pc = "gather"
    /\ \A c \in 1..Total : future[c].state = "collected"
    /\ stats' = [stats EXCEPT !.total_validated = Total]
    /\ raw_results' = CollectAllKeys
    /\ pc' = "categorize"
    /\ UNCHANGED <<clock, delivery_time, max_workers, candidates, pool_vars, buckets,
                   done_count, phase1, call_vars>>

\* categorize_validated_articles(raw_results["valid_articles"])
Categorize ==
    /\ pc = "categorize"
    /\ pc' = "build"
    /\ UNCHANGED <<clock, delivery_time, max_workers, candidates, pool_vars, gather_vars,
                   raw_results, phase1, call_vars>>

\* build_phase1_json and the saving of the phase 1 JSON; a key that
\* raw_results lacks raises KeyError, which nothing in run_pipeline catches
Phase1Tail ==
    /\ pc = "build"
    /\ IF BuildPhase1Reads \subseteq raw_results
       THEN /\ phase1' = [saved |-> TRUE,
                          total_candidates |-> Len(buckets.valid) + Len(buckets.stale)
                                + Len(buckets.unverified) + Len(buckets.error),
                          valid |-> Len(buckets.valid),
                          stale_rejected |-> Len(buckets.stale),
                          unverified_rejected |-> Len(buckets.unverified),
                          error |-> Len(buckets.error)]
            /\ pc' = "phase1_complete"
       ELSE /\ pc' = "crashed"
            /\ UNCHANGED phase1
    /\ UNCHANGED <<clock, delivery_time, max_workers, candidates, pool_vars, gather_vars,
                   raw_results, call_vars>>

Next ==
    \/ Construct
    \/ CollectSources
    \/ Submit
    \/ \E w \in Ids : Take(w)
    \/ \E w \in Ids : Finish(w)
    \/ \E c \in Ids : Gather(c)
    \/ ReturnCollectAll
    \/ Categorize
    \/ Phase1Tail

Spec == Init /\ [][Next]_vars

-----------------------------------------------------------------------------
(* One call of validate_one over every candidate, network answer, delivery *)
(* time and clock reading of the input sets                                *)

InitValidate ==
    /\ pc = "call"
    /\ clock = 0
    /\ delivery_time = 0
    /\ max_workers = 1
    /\ candidates = <<>>
    /\ submitted = 0
    /\ queue = <<>>
    /\ num_threads = 0
    /\ idle_semaphore = 0
    /\ worker = [w \in Ids |-> 0]
    /\ future = [c \in Ids |-> NewFuture]
    /\ runs = [c \in Ids |-> 0]
    /\ net = [c \in Ids |-> NoNet]
    /\ buckets = EmptyBuckets
    /\ stats = ZeroStats
    /\ done_count = 0
    /\ session_users = {}
    /\ raw_results = {}
    /\ phase1 = NoPhase1
    /\ \E c \in AllCandidates : \E d \in 0..MaxClock : \E t \in d..MaxClock :
       \E n \in NetChoices(c, Resolutions, FetchFailures, AllPages, t) :
          v_in = [c |-> c, n |-> n, dtime |-> d]
    /\ v_out = NoOutcome

CallValidateOne ==
    /\ pc = "call"
    /\ pc' = "returned"
    /\ v_out' = ValidateOne(v_in.c, v_in.n, v_in.dtime)
    /\ UNCHANGED <<clock, delivery_time, max_workers, candidates, pool_vars, gather_vars,
                   raw_results, phase1, v_in>>

NextValidate == CallValidateOne

SpecValidate == InitValidate /\ [][NextValidate]_vars

-----------------------------------------------------------------------------
(* Properties of one call of validate_one (SpecValidate) *)

Returned == pc = "returned"

\* the fetch went through: the wrapper URL, if any, was resolved and the
\* response body came back
FetchSucceeded == v_in.n.fetch = "ok"

\* the delivery time minus the instant of the date in the result, in minutes
DeltaMinutes == v_in.dtime - (v_out.date.local - v_out.date.tz)

\* whole hours of a span of minutes, floored at zero
WholeHours(delta) == IF delta < 0 THEN 0 ELSE delta \div MinutesPerHour

\* some extraction strategy finds a date in the page
PageYieldsDate ==
    LET p == v_in.n.page IN
    \/ p.meta.kind = "date"
    \/ p.jsonld.kind = "date"
    \/ p.timetag.kind = "date"
    \/ p.visible.kind = "date" /\ YearOf(p.visible.d.local) >= YearOf(v_in.n.now) - 1

\* the date hint denotes a date
HintYieldsDate == v_in.c.hint.kind \in {"iso", "relative"}

\* C2: when a date was obtained, from the page or from the hint, the verdict
\* is valid if the age in whole hours is at most 48 and stale otherwise; age
\* 48 is valid and age 49 is stale.
C2_ValidIffAgeWithinThreshold ==
    (Returned /\ v_out.date.ok) =>
        /\ v_out.has_age
        /\ v_out.category \in {"valid", "stale"}
        /\ v_out.category = "valid" <=> v_out.age_hours <= MAX_AGE_HOURS
        /\ v_out.age_hours = MAX_AGE_HOURS => v_out.verdict = "PASS"
        /\ v_out.age_hours = MAX_AGE_HOURS + 1 => v_out.verdict = "REJECT"

C2_AgeAtThresholdIsValid ==
    /\ Returned /\ v_out.date.ok
    /\ v_out.age_hours = MAX_AGE_HOURS
    /\ v_out.category = "valid"

\* C3: the verdict is error if and only if the fetch failed or the wrapper
\* URL could not be resolved; a candidate whose response body came back is
\* never in the error bucket, whatever happens while the body is processed.
C3_ErrorIffFetchFailed ==
    Returned => (v_out.category = "error" <=> ~FetchSucceeded)

\* C4: the verdict is unverified if and only if the fetch succeeded and no
\* date came from any extraction strategy nor from the hint; a malformed
\* date string counts as nothing found and never gives error.
C4_UnverifiedIffNoDate ==
    Returned =>
        (v_out.category = "unverified"
            <=> (FetchSucceeded /\ ~PageYieldsDate /\ ~HintYieldsDate))

\* C5: the age is the whole number of hours of delivery_time minus the date,
\* rounded down and never negative; a date after delivery_time has age 0 and
\* the candidate is valid.
C5_AgeFlooredAtZero ==
    /\ \A d \in AllDates \cup {AncientDate} : \A t \in 0..MaxClock :
          ComputeAgeHours(IsoFormat(d), t)
             = [has |-> TRUE, hours |-> WholeHours(t - Instant(AssumeUTC(d)))]
    /\ (Returned /\ v_out.date.ok) =>
          /\ v_out.has_age
          /\ v_out.age_hours >= 0
          /\ v_out.age_hours = WholeHours(DeltaMinutes)
          /\ DeltaMinutes < 0 => v_out.age_hours = 0 /\ v_out.category = "valid"

C5_FutureDateIsValid ==
    /\ Returned /\ v_out.date.ok
    /\ DeltaMinutes < -MinutesPerHour
    /\ v_out.age_hours = 0
    /\ v_out.category = "valid"

-----------------------------------------------------------------------------
(* Properties of the pipeline (Spec) *)

\* _validate_concurrent has returned
Validated == pc \in {"categorize", "build", "phase1_complete", "crashed"}

BucketNames == {"valid", "stale", "unverified", "error"}

\* the places of the buckets that hold a result of candidate c
EntriesOf(c) ==
    {<<b, i>> \in BucketNames \X Ids : i <= Len(buckets[b]) /\ buckets[b][i].id = c}

BucketTotal ==
    Len(buckets.valid) + Len(buckets.stale) + Len(buckets.unverified) + Len(buckets.error)

\* C1: once _validate_concurrent has returned, every candidate was processed
\* exactly once and has exactly one result in exactly one of the four
\* buckets, and the bucket sizes sum to the number of candidates.
C1_EveryCandidateInOneBucket ==
    Validated =>
        /\ \A c \in 1..Total : runs[c] = 1 /\ Cardinality(EntriesOf(c)) = 1
        /\ BucketTotal = Total

C1_TwoBucketsFilled ==
    /\ Validated
    /\ Total = NumCandidates
    /\ buckets.error # <<>>
    /\ buckets.unverified # <<>>

\* the outcome of candidate c had every clock reading of its validation
\* returned delivery_time
AnchoredOutcome(c) ==
    ValidateOne(candidates[c], [net[c] EXCEPT !.now = delivery_time], delivery_time)

\* C6: the age and verdict of every candidate are those computed against
\* delivery_time alone, however late the candidate is processed, also when
\* its date comes from a relative hint.
C6_AgesAnchoredToDeliveryTime ==
    \A c \in 1..Total :
        future[c].state \in {"done", "collected"} =>
            /\ future[c].out.category = AnchoredOutcome(c).category
            /\ future[c].out.age_hours = AnchoredOutcome(c).age_hours

\* candidate c failed: its wrapper URL was not resolved, its fetch failed, or
\* an exception was raised while its body was processed
Failed(c) ==
    \/ net[c].fetch # "ok"
    \/ TryBody(candidates[c], net[c], delivery_time).exc # "none"

Running == {w \in Ids : worker[w] # 0}

\* C8: the number of candidates being fetched and validated at the same time
\* never exceeds max_workers.
C8_AtMostMaxWorkersAtOnce ==
    /\ Cardinality(Running) <= max_workers
    /\ num_threads <= max_workers

C8_PoolFullTaskWaiting ==
    /\ Cardinality(Running) = max_workers
    /\ queue # <<>>

\* C9: the HTTP session is not mutable state that more than one worker
\* touches: at most one worker thread ever calls it.
C9_SessionUsedByOneWorker == Cardinality(session_users) <= 1

\* C10: a run that has ended has completed phase 1 and saved the audit
\* record that build_phase1_json builds from the dict of collect_all.
C10_Phase1AlwaysEmitted ==
    pc \in {"phase1_complete", "crashed"} => pc = "phase1_complete" /\ phase1.saved

-----------------------------------------------------------------------------
(* deduplicate_candidates.  A URL is the sequence of its parts: the scheme, *)
(* the host and path, "/" for each trailing slash, and "?" followed by the *)
(* query.  The empty sequence is the empty string.                          *)

MaxUrls == 2

UrlSchemes == {"http://", "https://"}

Url(scheme, path, slashes, query) ==
    <<scheme, path>> \o [i \in 1..slashes |-> "/"] \o query

\* s.split("?")[0]: the part of s before its first "?"
RECURSIVE BeforeQuery(_)
BeforeQuery(s) ==
    IF s = <<>> \/ Head(s) = "?" THEN <<>> ELSE <<Head(s)>> \o BeforeQuery(Tail(s))

\* s.rstrip("/")
RECURSIVE RStripSlash(_)
RStripSlash(s) ==
    IF s # <<>> /\ s[Len(s)] = "/" THEN RStripSlash(SubSeq(s, 1, Len(s) - 1)) ELSE s

\* candidate.get("url", "").split("?")[0].rstrip("/")
NormalizeUrl(url) == RStripSlash(BeforeQuery(url))

\* the loop of deduplicate_candidates over the candidates not yet visited
RECURSIVE DedupFrom(_, _)
DedupFrom(candidates_left, seen_urls) ==
    IF candidates_left = <<>> THEN <<>>
    ELSE LET candidate == Head(candidates_left)
             url == NormalizeUrl(candidate.url)
         IN IF url # <<>> /\ url \notin seen_urls
            THEN <<candidate>> \o DedupFrom(Tail(candidates_left), seen_urls \cup {url})
            ELSE DedupFrom(Tail(candidates_left), seen_urls)

deduplicate_candidates(cands) == DedupFrom(cands, {})

\* the URLs of the raw candidates: both schemes, two pages, with and without
\* a trailing slash and a query string, and the empty URL
RawUrls ==
    {<<>>} \cup {Url(sch, p, sl, q) : sch \in UrlSchemes, p \in {"e.com/a", "e.com/b"},
                                      sl \in 0..1, q \in {<<>>, <<"?", "utm">>}}

\* every variable of the pipeline at rest, for the specifications of one call
PipelineAtRest ==
    /\ clock = 0
    /\ delivery_time = 0
    /\ max_workers = 1
    /\ candidates = <<>>
    /\ submitted = 0
    /\ queue = <<>>
    /\ num_threads = 0
    /\ idle_semaphore = 0
    /\ worker = [w \in Ids |-> 0]
    /\ future = [c \in Ids |-> NewFuture]
    /\ runs = [c \in Ids |-> 0]
    /\ net = [c \in Ids |-> NoNet]
    /\ buckets = EmptyBuckets
    /\ stats = ZeroStats
    /\ done_count = 0
    /\ session_users = {}
    /\ raw_results = {}
    /\ phase1 = NoPhase1

InitDedup ==
    /\ pc = "dedup_call"
    /\ PipelineAtRest
    /\ \E k \in 0..MaxUrls : \E urls \in [1..k -> RawUrls] :
          v_in = [i \in 1..k |-> [url |-> urls[i], pos |-> i]]
    /\ v_out = <<>>

\* all_raw = deduplicate_candidates(all_raw)
CallDedup ==
    /\ pc = "dedup_call"
    /\ pc' = "dedup_returned"
    /\ v_out' = deduplicate_candidates(v_in)
    /\ UNCHANGED <<clock, delivery_time, max_workers, candidates, pool_vars, gather_vars,
                   raw_results, phase1, v_in>>

NextDedup == CallDedup

SpecDedup == InitDedup /\ [][NextDedup]_vars

\* the normalized URL of the working-set invariant: scheme and query
\* stripped, trailing slash removed
SchemelessUrl(url) ==
    LET u == NormalizeUrl(url) IN
    IF u # <<>> /\ Head(u) \in UrlSchemes THEN Tail(u) ELSE u

\* C11: after deduplicate_candidates no two survivors have the same
\* normalized URL (scheme and query stripped, trailing slash removed), and
\* of two candidates whose URLs differ only by a trailing slash or a query
\* the first one survives alone.
C11_NoTwoSurvivorsShareNormalizedUrl ==
    pc = "dedup_returned" =>
        /\ \A i, j \in 1..Len(v_out) :
              i # j => SchemelessUrl(v_out[i].url) # SchemelessUrl(v_out[j].url)
        /\ \A i, j \in 1..Len(v_in) :
              (i < j /\ NormalizeUrl(v_in[i].url) = NormalizeUrl(v_in[j].url))
                 => \A k \in 1..Len(v_out) : v_out[k] # v_in[j]

-----------------------------------------------------------------------------
(* Topic deduplication: _normalize_words and _is_duplicate_topic.  A word   *)
(* is the sequence of its characters; a headline is the sequence of the     *)
(* words that re.findall(r'[a-z0-9]+', headline.lower()) yields.            *)

STOP_WORDS ==
    {
      <<"a">>, <<"a","b","o","u","t">>, <<"a","c","c","o","r","d","i","n","g">>,
      <<"a","f","t","e","r">>, <<"a","l","l">>, <<"a","l","s","o">>, <<"a","n">>, <<"a","n","d">>,
      <<"a","r","e">>, <<"a","s">>, <<"a","t">>, <<"b","e">>, <<"b","e","e","n">>,
      <<"b","e","i","n","g">>, <<"b","u","t">>, <<"b","y">>, <<"c","a","n">>,
      <<"c","o","u","l","d">>, <<"d","i","d">>, <<"d","o">>, <<"d","o","e","s">>, <<"f","o","r">>,
      <<"f","r","o","m">>, <<"h","a","d">>, <<"h","a","s">>, <<"h","a","v","e">>, <<"h","e","r">>,
      <<"h","i","s">>, <<"h","o","w">>, <<"i","f">>, <<"i","n">>, <<"i","n","t","o">>, <<"i","s">>,
      <<"i","t">>, <<"i","t","s">>, <<"j","u","s","t">>, <<"m","a","y">>, <<"m","o","r","e">>,
      <<"n","e","w">>, <<"n","o">>, <<"n","o","t">>, <<"o","f">>, <<"o","n">>, <<"o","r">>,
      <<"o","u","r">>, <<"o","u","t">>, <<"o","v","e","r">>, <<"p","e","r">>,
      <<"r","e","p","o","r","t">>, <<"r","e","p","o","r","t","s">>, <<"s","a","i","d">>,
      <<"s","a","y","s">>, <<"s","h","o","u","l","d">>, <<"s","o">>, <<"t","h","a","n">>,
      <<"t","h","a","t">>, <<"t","h","e">>, <<"t","h","e","i","r">>, <<"t","h","e","m">>,
      <<"t","h","e","y">>, <<"t","h","i","s">>, <<"t","o">>, <<"u","p">>, <<"v","i","a">>,
      <<"w","a","s">>, <<"w","e","r","e">>, <<"w","h","a","t">>, <<"w","h","e","n">>,
      <<"w","h","o">>, <<"w","h","y">>, <<"w","i","l","l">>, <<"w","i","t","h">>,
      <<"w","o","u","l","d">>, <<"y","o","u">>, <<"y","o","u","r">> }

\* _BRAND_ALIASES as pairs <<alternate name, canonical name>>
BRAND_ALIASES ==
    {
      <<<<"f","a","c","e","b","o","o","k">>, <<"m","e","t","a">>>>,
      <<<<"i","n","s","t","a","g","r","a","m">>, <<"m","e","t","a">>>>,
      <<<<"w","h","a","t","s","a","p","p">>, <<"m","e","t","a">>>>,
      <<<<"g","o","o","g","l","e">>, <<"a","l","p","h","a","b","e","t">>>>,
      <<<<"y","o","u","t","u","b","e">>, <<"a","l","p","h","a","b","e","t">>>>,
      <<<<"d","e","e","p","m","i","n","d">>, <<"a","l","p","h","a","b","e","t">>>>,
      <<<<"c","h","a","t","g","p","t">>, <<"o","p","e","n","a","i">>>>,
      <<<<"g","p","t">>, <<"o","p","e","n","a","i">>>>,
      <<<<"d","a","l","l","-","e">>, <<"o","p","e","n","a","i">>>>,
      <<<<"d","a","l","l","e">>, <<"o","p","e","n","a","i">>>>,
      <<<<"c","l","a","u","d","e">>, <<"a","n","t","h","r","o","p","i","c">>>>,
      <<<<"b","i","n","g">>, <<"m","i","c","r","o","s","o","f","t">>>>,
      <<<<"g","i","t","h","u","b">>, <<"m","i","c","r","o","s","o","f","t">>>>,
      <<<<"c","o","p","i","l","o","t">>, <<"m","i","c","r","o","s","o","f","t">>>>,
      <<<<"a","l","e","x","a">>, <<"a","m","a","z","o","n">>>>,
      <<<<"a","w","s">>, <<"a","m","a","z","o","n">>>> }

EndsWith(w, suffix) ==
    Len(w) >= Len(suffix) /\ SubSeq(w, Len(w) - Len(suffix) + 1, Len(w)) = suffix

\* w[:-n]
DropLast(w, n) == SubSeq(w, 1, Len(w) - n)

\* the suffix stripping of _normalize_words, most specific suffix first
StripSuffix(w) ==
    IF EndsWith(w, <<"a","t","e","d">>) /\ Len(w) > 5 THEN DropLast(w, 1)
    ELSE IF EndsWith(w, <<"i","e","d">>) /\ Len(w) > 4 THEN DropLast(w, 3) \o <<"y">>
    ELSE IF EndsWith(w, <<"i","n","g">>) /\ Len(w) > 5 THEN DropLast(w, 3)
    ELSE IF EndsWith(w, <<"e","d">>) /\ Len(w) > 4 THEN DropLast(w, 2)
    ELSE IF EndsWith(w, <<"i","e","s">>) /\ Len(w) > 4 THEN DropLast(w, 3) \o <<"y">>
    ELSE IF EndsWith(w, <<"e","s">>) /\ Len(w) > 4 THEN DropLast(w, 2)
    ELSE IF EndsWith(w, <<"s">>) /\ ~EndsWith(w, <<"s","s">>) /\ Len(w) > 3 THEN DropLast(w, 1)
    ELSE w

\* _BRAND_ALIASES.get(w, w)
BrandAlias(w) ==
    IF \E pair \in BRAND_ALIASES : pair[1] = w
    THEN (CHOOSE pair \in BRAND_ALIASES : pair[1] = w)[2]
    ELSE w

\* _normalize_words(headline)
normalize_words(headline) ==
    {BrandAlias(StripSuffix(headline[k])) :
        k \in {j \in 1..Len(headline) : headline[j] \notin STOP_WORDS /\ Len(headline[j]) > 2}}

MaxTokens == 9

JACCARD_PERCENT == 40
COVERAGE_PERCENT == 55
MIN_SHARED == 3

\* the first of the two, whichever is smaller
Min_First(a, b) == a

Min(a, b) == IF a <= b THEN a ELSE b

\* _is_duplicate_topic with a coverage check that asks for two shared words
is_duplicate_topic_TwoShared(headline_a, headline_b) ==
    LET words_a == normalize_words(headline_a)
        words_b == normalize_words(headline_b)
        inter == Cardinality(words_a \cap words_b)
    IN /\ words_a # {} /\ words_b # {}
       /\ \/ 100 * inter >= JACCARD_PERCENT * Cardinality(words_a \cup words_b)
          \/ inter >= 2 /\ 100 * inter
                              >= COVERAGE_PERCENT * Min(Cardinality(words_a), Cardinality(words_b))

\* _is_duplicate_topic(headline_a, headline_b); the quotients are compared as
\* fractions of 100
is_duplicate_topic(headline_a, headline_b) ==
    LET words_a == normalize_words(headline_a)
        words_b == normalize_words(headline_b)
        intersection == words_a \cap words_b
        union == words_a \cup words_b
        shorter == Min(Cardinality(words_a), Cardinality(words_b))
    IN IF words_a = {} \/ words_b = {} THEN FALSE
       ELSE IF 100 * Cardinality(intersection) >= JACCARD_PERCENT * Cardinality(union) THEN TRUE
       ELSE IF /\ Cardinality(intersection) >= MIN_SHARED
               /\ 100 * Cardinality(intersection) >= COVERAGE_PERCENT * shorter
       THEN TRUE
       ELSE FALSE

DigitChars == <<"0", "1", "2", "3", "4", "5", "6", "7", "8", "9">>

\* the words tok00, tok01, ...: no stop word, no suffix to strip, no alias
PlainWord(i) == <<"t", "o", "k", DigitChars[(i \div 10) + 1], DigitChars[(i % 10) + 1]>>

\* a headline of a plain words and one of b plain words that share i of them
PlainHeadlines(a, b, i) ==
    [a |-> [k \in 1..a |-> PlainWord(k)], b |-> [k \in 1..b |-> PlainWord(a - i + k)]]

\* "OpenAI introduces ads in ChatGPT"
HeadlineIntroducesAds ==
    <<<<"o","p","e","n","a","i">>,
      <<"i","n","t","r","o","d","u","c","e","s">>,
      <<"a","d","s">>,
      <<"i","n">>,
      <<"c","h","a","t","g","p","t">>>>

\* "OpenAI tests ChatGPT ads for free users"
HeadlineTestsAds ==
    <<<<"o","p","e","n","a","i">>,
      <<"t","e","s","t","s">>,
      <<"c","h","a","t","g","p","t">>,
      <<"a","d","s">>,
      <<"f","o","r">>,
      <<"f","r","e","e">>,
      <<"u","s","e","r","s">>>>

\* "Google launched funding for the applied studies of animated classes"
HeadlineSuffixes ==
    <<<<"g","o","o","g","l","e">>,
      <<"l","a","u","n","c","h","e","d">>,
      <<"f","u","n","d","i","n","g">>,
      <<"f","o","r">>,
      <<"t","h","e">>,
      <<"a","p","p","l","i","e","d">>,
      <<"s","t","u","d","i","e","s">>,
      <<"o","f">>,
      <<"a","n","i","m","a","t","e","d">>,
      <<"c","l","a","s","s","e","s">>>>

HeadlinePairs ==
    UNION {{PlainHeadlines(a, b, i) : i \in 0..Min(a, b)} :
              a \in 0..MaxTokens, b \in 0..MaxTokens}
    \cup {[a |-> x, b |-> y] : x, y \in {HeadlineIntroducesAds, HeadlineTestsAds,
                                         HeadlineSuffixes}}

InitTopic ==
    /\ pc = "topic_call"
    /\ PipelineAtRest
    /\ v_in \in HeadlinePairs
    /\ v_out = FALSE

\* _is_duplicate_topic(headline, existing.get("headline", ""))
CallTopic ==
    /\ pc = "topic_call"
    /\ pc' = "topic_returned"
    /\ v_out' = is_duplicate_topic(v_in.a, v_in.b)
    /\ UNCHANGED <<clock, delivery_time, max_workers, candidates, pool_vars, gather_vars,
                   raw_results, phase1, v_in>>

NextTopic == CallTopic

SpecTopic == InitTopic /\ [][NextTopic]_vars

\* the token sets of the two headlines of the call
WordsA == normalize_words(v_in.a)
WordsB == normalize_words(v_in.b)
Shared == Cardinality(WordsA \cap WordsB)

\* C12: _is_duplicate_topic is true exactly when both token sets are
\* non-empty and either |A cap B| / |A cup B| >= 0.40, or |A cap B| >= 3 and
\* |A cap B| / min(|A|, |B|) >= 0.55.
C12_DuplicateIffThresholdsMet ==
    pc = "topic_returned" =>
        (v_out = TRUE <=>
            /\ WordsA # {} /\ WordsB # {}
            /\ \/ 5 * Shared >= 2 * Cardinality(WordsA \cup WordsB)
               \/ Shared >= 3
                  /\ 20 * Shared >= 11 * Min(Cardinality(WordsA), Cardinality(WordsB)))

C12_DuplicateByCoverageOnly ==
    /\ pc = "topic_returned"
    /\ v_out = TRUE
    /\ Shared = 3
    /\ 5 * Shared < 2 * Cardinality(WordsA \cup WordsB)

\* C13: for "OpenAI introduces ads in ChatGPT" and "OpenAI tests ChatGPT ads
\* for free users" the token sets share at least 3 tokens covering at least
\* 55% of the shorter set, and _is_duplicate_topic returns true.
C13_AdsHeadlinesAreDuplicates ==
    (pc = "topic_returned" /\ v_in = [a |-> HeadlineIntroducesAds, b |-> HeadlineTestsAds]) =>
        /\ Shared >= 3
        /\ 20 * Shared >= 11 * Min(Cardinality(WordsA), Cardinality(WordsB))
        /\ v_out = TRUE

-----------------------------------------------------------------------------
(* classify_source_tier.  A source name is written in lower case, as        *)
(* .lower() leaves it; a URL carries the lower-cased source that            *)
(* DOMAIN_TO_SOURCE maps its domain to, or "" when no fragment matches.     *)

TIER1_SOURCES ==
    {
      "al jazeera", "ap", "ap news", "associated press", "bbc", "bbc news", "bbc sport",
      "bbc world", "guardian", "new york times", "npr", "npr news", "nyt", "reuters",
      "reuters business", "the guardian", "the new york times", "the wall street journal",
      "wall street journal", "wsj" }

TIER2_SOURCES ==
    {
      "abc news", "axios", "bloomberg", "cbs news", "cnbc", "cnn", "espn", "financial times",
      "foreign affairs", "foreign policy", "fortune", "ft", "nbc news", "pbs", "pbs newshour",
      "politico", "techcrunch", "techcrunch ai", "the atlantic", "the economist", "the verge",
      "the verge ai", "the washington post", "time", "time magazine", "wapo", "washington post",
      "wired" }

TIER3_SOURCES ==
    {
      "ars technica", "balkan insight", "becker's hospital review", "beckers hospital review",
      "bleacher report", "business wire", "defense one", "fierce healthcare", "globenewswire",
      "healthcare dive", "just security", "kff health news", "military times",
      "mit technology review", "modern healthcare", "nbc olympics", "nbcolympics", "olympics.com",
      "pr newswire", "prnewswire", "ramaonhealthcare", "space.com", "stat news", "techcrunch ai",
      "the diplomat", "the information", "times of israel", "ukr. pravda", "ukrainian pravda",
      "unhcr", "world", "yahoo sports" }

LOCAL_SOURCES ==
    {
      "abc7", "abc7 news", "abc7 san francisco", "bay area news group", "danville san ramon",
      "danville sanramon", "east bay times", "kqed", "marin independent journal", "mercury news",
      "oakland tribune", "patch", "pleasanton weekly", "san francisco chronicle",
      "san francisco standard", "san jose mercury news", "sf chronicle", "sf standard",
      "sfchronicle", "tri-valley herald" }

\* the lower-cased values of DOMAIN_TO_SOURCE
DOMAIN_TO_SOURCE ==
    {
      "bleacher report", "business wire", "globenewswire", "nbc olympics", "olympics.com",
      "pr newswire", "ramaonhealthcare", "times of israel", "yahoo sports" }

\* _normalize_source_name: a trailing parenthetical such as " (afp)" is
\* removed; the name of the model that carries one is listed here
normalize_source_name(name) ==
    IF name = "times of israel (afp)" THEN "times of israel" ELSE name

\* the tier classify_source_tier returns: 1, 2, 3, LocalTier, or
\* UnknownTier
LocalTier == 99
UnknownTier == 0

classify_source_tier(source_name, url) ==
    LET name_lower == IF url.remap # "" THEN url.remap ELSE normalize_source_name(source_name)
        names_to_check == {name_lower, source_name}
        tier == IF names_to_check \cap TIER1_SOURCES # {} THEN 1
                ELSE IF names_to_check \cap TIER2_SOURCES # {} THEN 2
                ELSE IF names_to_check \cap TIER3_SOURCES # {} THEN 3
                ELSE IF names_to_check \cap LOCAL_SOURCES # {} THEN LocalTier
                ELSE UnknownTier
    IN [tier |-> tier, ga_eligible |-> tier \in {1, 2}]

-----------------------------------------------------------------------------
(* categorize_validated_articles.  An article is the dict validate_one      *)
(* returned: url (its address, whether it holds a digest pattern, and the   *)
(* source its domain is remapped to), headline (a sequence of words),       *)
(* source, is_local; local_pattern, non_english, relevance, section and     *)
(* country are what the allowlist test, _is_non_english, score_article,     *)
(* categorize_article and detect_country_flag return for it.  The keys the  *)
(* first loop adds are score, category, flag, tier and ga_eligible; scored  *)
(* is FALSE while they are absent, and they then hold what .get() reads     *)
(* for an absent key.                                                       *)

US_FLAG == "US"
TIER1_SOURCE_CAP == 2
INITIAL_TIER1_SIZE == 12
TIER1_SLOTS == 6
GA_SOURCE_CAP == 3
GA_US_CAP == 4
GA_TARGET == 10

Article(url, headline, source, is_local, local_pattern, non_english, relevance, section, country) ==
    [url |-> url, headline |-> headline, source |-> source, is_local |-> is_local,
     local_pattern |-> local_pattern, non_english |-> non_english,
     relevance |-> relevance, section |-> section, country |-> country,
     scored |-> FALSE, score |-> 0, category |-> "", flag |-> US_FLAG,
     tier |-> 0, ga_eligible |-> FALSE]

\* the continue statements of the first loop
SkippedByFirstLoop(article) ==
    \/ article.headline = <<>>
    \/ article.url.digest
    \/ article.is_local
    \/ article.non_english

\* the body of the first loop for one article
Annotate(article) ==
    IF SkippedByFirstLoop(article) THEN article
    ELSE LET tier_info == classify_source_tier(article.source, article.url)
         IN [article EXCEPT !.scored = TRUE,
                            !.score = article.relevance,
                            !.category = article.section,
                            !.flag = article.country,
                            !.tier = tier_info.tier,
                            !.ga_eligible = tier_info.ga_eligible]

\* every local article with a headline goes to the local section
IsLocalCandidate_NoAllowlist(article) ==
    /\ article.headline # <<>>
    /\ ~article.url.digest
    /\ article.is_local

IsLocalCandidate(article) ==
    /\ article.headline # <<>>
    /\ ~article.url.digest
    /\ article.is_local
    /\ article.local_pattern

IsNonLocal(article) ==
    /\ ~article.is_local
    /\ article.headline # <<>>
    /\ ~article.non_english

\* the order of sort keys that are tuples of integers
RECURSIVE LexLess(_, _)
LexLess(a, b) ==
    /\ a # <<>>
    /\ b # <<>>
    /\ \/ Head(a) < Head(b)
       \/ (Head(a) = Head(b) /\ LexLess(Tail(a), Tail(b)))

\* list.sort: the stable sort of s by ascending keys, keys[i] being the
\* key of s[i]
StableSort(s, keys) ==
    LET rank(i) == Cardinality({j \in 1..Len(s) :
                        \/ LexLess(keys[j], keys[i])
                        \/ (~LexLess(keys[i], keys[j]) /\ j < i)})
    IN [k \in 1..Len(s) |-> s[CHOOSE i \in 1..Len(s) : rank(i) = k - 1]]

\* every article has the same key: the sort leaves the input order
ScoreKey_InputOrder(article) == <<0>>

\* key=lambda x: x.get("_score", 0), reverse=True
ScoreKey(article) == <<0 - article.score>>

SortByScore(articles) ==
    StableSort(articles, [i \in 1..Len(articles) |-> ScoreKey(articles[i])])

CategoryOrder(article) ==
    CASE article.category = "health" -> 0
      [] article.category = "tech" -> 1
      [] OTHER -> 2

\* key=lambda a: (cat_order..., -a.get("_score", 0))
CategoryKey(article) == <<CategoryOrder(article), 0 - article.score>>

SortByCategory(articles) ==
    StableSort(articles, [i \in 1..Len(articles) |-> CategoryKey(articles[i])])

\* the inner loop of _deduplicate_articles: headline repeats the topic of
\* an article of kept
IsDupOfKept_LastOnly(headline, kept) ==
    /\ kept # <<>>
    /\ is_duplicate_topic(headline, kept[Len(kept)].headline)

IsDupOfKept(headline, kept) ==
    \E i \in 1..Len(kept) : is_duplicate_topic(headline, kept[i].headline)

RECURSIVE DeduplicateFrom(_, _)
DeduplicateFrom(articles, kept) ==
    IF articles = <<>> THEN kept
    ELSE DeduplicateFrom(Tail(articles),
             IF IsDupOfKept(Head(articles).headline, kept) THEN kept
             ELSE Append(kept, Head(articles)))

deduplicate_articles(articles) == DeduplicateFrom(articles, <<>>)

CountSource(articles, source) ==
    Cardinality({i \in 1..Len(articles) : articles[i].source = source})

Contains(articles, article) == \E i \in 1..Len(articles) : articles[i] = article

UrlsOf(articles) == {articles[i].url : i \in 1..Len(articles)}

\* the first pass of the tier 1 selection: at most cap articles of a source,
\* stopping once limit articles are collected
RECURSIVE TakePerSource(_, _, _, _)
TakePerSource(articles, taken, cap, limit) ==
    IF articles = <<>> \/ Len(taken) >= limit THEN taken
    ELSE TakePerSource(Tail(articles),
             IF CountSource(taken, Head(articles).source) < cap
             THEN Append(taken, Head(articles)) ELSE taken,
             cap, limit)

\* the first article of pool with the category that is not in initial_tier1,
\* as a sequence of at most one article
FirstOfCategoryOutside(pool, category, initial_tier1) ==
    LET found == SelectSeq(pool, LAMBDA a : a.category = category /\ ~Contains(initial_tier1, a))
    IN IF found = <<>> THEN <<>> ELSE <<Head(found)>>

\* the fill loop of the trim: articles of initial_tier1 whose URL is not
\* yet used, while fewer than TIER1_SLOTS are chosen
RECURSIVE FillTier1(_, _)
FillTier1(initial_tier1, chosen) ==
    IF initial_tier1 = <<>> \/ Len(chosen) >= TIER1_SLOTS THEN chosen
    ELSE FillTier1(Tail(initial_tier1),
             IF Head(initial_tier1).url \in UrlsOf(chosen) THEN chosen
             ELSE Append(chosen, Head(initial_tier1)))

\* every article passes the source quality gate
GaEligible_AnySource(article) == TRUE

\* article.get("_ga_eligible", False)
GaEligible(article) == article.ga_eligible

\* a source may fill the GA pool
UnderGaSourceCap_Unchecked(ga_pool, source) == TRUE

\* ga_source_counts.get(source, 0) < 3
UnderGaSourceCap(ga_pool, source) == CountSource(ga_pool, source) < GA_SOURCE_CAP

\* the GA pool: eligible articles outside tier 1, at most GA_SOURCE_CAP of a
\* source
RECURSIVE GaPoolFrom(_, _, _)
GaPoolFrom(articles, tier1_urls, ga_pool) ==
    IF articles = <<>> THEN ga_pool
    ELSE GaPoolFrom(Tail(articles), tier1_urls,
             IF /\ Head(articles).url \notin tier1_urls
                /\ GaEligible(Head(articles))
                /\ UnderGaSourceCap(ga_pool, Head(articles).source)
             THEN Append(ga_pool, Head(articles)) ELSE ga_pool)

\* the GA deduplication against tier 1 and the GA articles already selected
RECURSIVE GaDedupFrom(_, _, _)
GaDedupFrom(ga_pool, tier1_candidates, ga_deduped) ==
    IF ga_pool = <<>> THEN ga_deduped
    ELSE GaDedupFrom(Tail(ga_pool), tier1_candidates,
             IF \/ IsDupOfKept(Head(ga_pool).headline, tier1_candidates)
                \/ IsDupOfKept(Head(ga_pool).headline, ga_deduped)
             THEN ga_deduped ELSE Append(ga_deduped, Head(ga_pool)))

Prefix(s, n) == SubSeq(s, 1, Min(n, Len(s)))

Suffix(s, n) == SubSeq(s, Min(n, Len(s)) + 1, Len(s))

\* the first GA_TARGET articles whatever their flags
GeographyPass_NoSwap(ga_deduped) == Prefix(ga_deduped, GA_TARGET)

\* the geographic pass
GeographyPass(ga_deduped) ==
    LET ga_top == Prefix(ga_deduped, GA_TARGET)
        us_in_top == SelectSeq(ga_top, LAMBDA a : a.flag = US_FLAG)
        intl_in_top == SelectSeq(ga_top, LAMBDA a : a.flag # US_FLAG)
        intl_remaining == SelectSeq(Suffix(ga_deduped, GA_TARGET), LAMBDA a : a.flag # US_FLAG)
        us_keep == Prefix(us_in_top, GA_US_CAP)
        us_drop == Suffix(us_in_top, GA_US_CAP)
        replacements == Prefix(intl_remaining, Len(us_drop))
    IN IF Len(us_in_top) > GA_US_CAP
       THEN intl_in_top \o us_keep \o replacements
       ELSE ga_top

\* non_local before the selections: the non-local articles, sorted by
\* score (stable, descending)
SortedNonLocal(valid_articles) ==
    LET annotated == [i \in 1..Len(valid_articles) |-> Annotate(valid_articles[i])]
    IN SortByScore(SelectSeq(annotated, IsNonLocal))

\* non_local after _deduplicate_articles: the pool of both selections
NonLocalPool(valid_articles) == deduplicate_articles(SortedNonLocal(valid_articles))

\* the tier 1 selection with section diversity
SelectTier1(non_local) ==
    LET first_pass == TakePerSource(non_local, <<>>, TIER1_SOURCE_CAP, INITIAL_TIER1_SIZE)
        tech_in_top == SelectSeq(first_pass, LAMBDA a : a.category = "tech")
        tech_picks == IF tech_in_top # <<>> THEN tech_in_top
                      ELSE FirstOfCategoryOutside(non_local, "tech", first_pass)
        with_tech == IF tech_in_top = <<>> THEN first_pass \o tech_picks ELSE first_pass
        biz_in_top == SelectSeq(first_pass, LAMBDA a : a.category = "business")
        biz_picks == IF biz_in_top # <<>> THEN biz_in_top
                     ELSE FirstOfCategoryOutside(non_local, "business", with_tech)
        initial_tier1 == IF biz_in_top = <<>> THEN with_tech \o biz_picks ELSE with_tech
        best_tech == Prefix(tech_picks, 1)
        best_biz == IF biz_picks # <<>> /\ biz_picks[1].url \notin UrlsOf(best_tech)
                    THEN <<biz_picks[1]>> ELSE <<>>
        trimmed == FillTier1(initial_tier1, best_tech \o best_biz)
    IN SortByCategory(trimmed)

\* ga_deduped: the GA pool deduplicated against tier 1 and itself
GaDeduped(non_local, tier1_candidates) ==
    GaDedupFrom(GaPoolFrom(non_local, UrlsOf(tier1_candidates), <<>>), tier1_candidates, <<>>)

categorize_validated_articles(valid_articles) ==
    LET annotated == [i \in 1..Len(valid_articles) |-> Annotate(valid_articles[i])]
        local_candidates == SelectSeq(annotated, IsLocalCandidate)
        non_local == NonLocalPool(valid_articles)
        tier1_candidates == SelectTier1(non_local)
        ga_deduped == GaDeduped(non_local, tier1_candidates)
        ga_candidates == SortByScore(GeographyPass(ga_deduped))
    IN [tier1_candidates |-> tier1_candidates,
        ga_candidates |-> ga_candidates,
        local_candidates |-> local_candidates]

(* One call of categorize_validated_articles.  The inputs are lists of     *)
(* valid articles: article i has the address i, a headline of the one plain *)
(* word i, a score that falls with i, and a source and a section that       *)
(* cycle through EligibleSources and Sections.  The long lists, of up to    *)
(* MaxArticles articles, vary the number of sources and the flags; the      *)
(* short ones, of up to MaxShort articles, alter one or two articles.       *)

MaxArticles == 19
MaxShort == 8

\* lengths of the lists whose flags vary: enough articles for tier 1, the
\* GA_TARGET first GA articles and at least one more
LongLengths == (TIER1_SLOTS + GA_TARGET + 1)..MaxArticles

PlainUrl(i) == [addr |-> i, digest |-> FALSE, remap |-> ""]

EligibleSources == <<"reuters", "axios", "bbc", "politico">>

Sections == <<"health", "tech", "business">>

Cycle(s, i) == s[((i - 1) % Len(s)) + 1]

\* the flags of a list: first up to position cut1, second up to cut2, third
\* after it
FlagAt(i, pattern) ==
    IF i <= pattern.cut1 THEN pattern.first
    ELSE IF i <= pattern.cut2 THEN pattern.second
    ELSE pattern.third

AllUS == [cut1 |-> 0, cut2 |-> 0, first |-> US_FLAG, second |-> US_FLAG, third |-> US_FLAG]

BaseArticle(i, num_sources, pattern) ==
    Article(PlainUrl(i), <<PlainWord(i)>>, Cycle(SubSeq(EligibleSources, 1, num_sources), i),
            FALSE, FALSE, FALSE, MaxArticles + 1 - i, Cycle(Sections, i), FlagAt(i, pattern))

BaseList(n, num_sources, pattern) == [i \in 1..n |-> BaseArticle(i, num_sources, pattern)]

\* a headline that repeats the topic of article i's: its word and one more
RepeatedHeadline(i, j) == <<PlainWord(i), PlainWord(MaxArticles + 1 + j)>>

\* article j altered with respect to article i: the same topic or the same
\* URL, possibly the highest score of the list, possibly a digest URL
AlterPair(list, i, j, relation, top_score, digest) ==
    LET with_relation ==
            IF relation = "same_topic" THEN [list[j] EXCEPT !.headline = RepeatedHeadline(i, j)]
            ELSE [list[j] EXCEPT !.url = list[i].url]
        with_score ==
            IF top_score THEN [with_relation EXCEPT !.relevance = MaxArticles + 1 + j]
            ELSE with_relation
    IN [list EXCEPT ![j] = [with_score EXCEPT !.url.digest = digest]]

Kinds ==
    {"digest", "local", "local_pattern", "non_english", "no_headline", "stop_words",
     "tier3", "local_source", "unknown", "parenthetical", "remapped_unknown", "remapped_tier1",
     "negative_score", "local_digest", "local_pattern_digest", "local_pattern_non_english"}

\* article j altered alone
AlterKind(list, j, kind) ==
    [list EXCEPT ![j] =
        CASE kind = "digest" -> [@ EXCEPT !.url.digest = TRUE]
          [] kind = "local" -> [@ EXCEPT !.is_local = TRUE]
          [] kind = "local_pattern" -> [@ EXCEPT !.is_local = TRUE, !.local_pattern = TRUE]
          [] kind = "non_english" -> [@ EXCEPT !.non_english = TRUE]
          [] kind = "no_headline" -> [@ EXCEPT !.headline = <<>>]
          [] kind = "stop_words" -> [@ EXCEPT !.headline = <<<<"t", "h", "e">>>>]
          [] kind = "tier3" -> [@ EXCEPT !.source = "ars technica"]
          [] kind = "local_source" -> [@ EXCEPT !.source = "kqed"]
          [] kind = "unknown" -> [@ EXCEPT !.source = "substack"]
          [] kind = "parenthetical" -> [@ EXCEPT !.source = "times of israel (afp)"]
          [] kind = "remapped_unknown" -> [@ EXCEPT !.source = "substack", !.url.remap = "pr newswire"]
          [] kind = "remapped_tier1" -> [@ EXCEPT !.source = "reuters", !.url.remap = "pr newswire"]
          [] kind = "negative_score" -> [@ EXCEPT !.relevance = 0 - j]
          [] kind = "local_digest" -> [@ EXCEPT !.is_local = TRUE, !.url.digest = TRUE]
          [] kind = "local_pattern_digest" ->
                 [@ EXCEPT !.is_local = TRUE, !.local_pattern = TRUE, !.url.digest = TRUE]
          [] kind = "local_pattern_non_english" ->
                 [@ EXCEPT !.is_local = TRUE, !.local_pattern = TRUE, !.non_english = TRUE]]

InitCategorize ==
    /\ PipelineAtRest
    /\ pc = "categorize_call"
    /\ v_out = [tier1_candidates |-> <<>>, ga_candidates |-> <<>>, local_candidates |-> <<>>]
    /\ \/ \E n \in 0..MaxArticles :
          \E num_sources \in 1..Len(EligibleSources) :
             v_in = BaseList(n, num_sources, AllUS)
       \/ \E n \in LongLengths :
          \E cut1 \in TIER1_SLOTS..n :
          \E cut2 \in cut1..n :
          \E first \in {US_FLAG, "GB"} :
             v_in = BaseList(n, Len(EligibleSources),
                        [cut1 |-> cut1, cut2 |-> cut2, first |-> first,
                         second |-> IF first = US_FLAG THEN "GB" ELSE US_FLAG, third |-> "FR"])
       \/ \E n \in 0..MaxShort :
          \E j \in 1..n :
          \E i \in 1..(j - 1) :
          \E relation \in {"same_topic", "same_url"} :
          \E top_score \in BOOLEAN :
          \E digest \in BOOLEAN :
             v_in = AlterPair(BaseList(n, Len(EligibleSources), AllUS), i, j, relation, top_score, digest)
       \/ \E n \in 0..MaxShort :
          \E j \in 1..n :
          \E kind \in Kinds :
             v_in = AlterKind(BaseList(n, Len(EligibleSources), AllUS), j, kind)

CallCategorize ==
    /\ pc = "categorize_call"
    /\ pc' = "categorize_returned"
    /\ v_out' = categorize_validated_articles(v_in)
    /\ UNCHANGED <<clock, delivery_time, max_workers, candidates, pool_vars, gather_vars,
                   raw_results, phase1, v_in>>

NextCategorize == CallCategorize

SpecCategorize == InitCategorize /\ [][NextCategorize]_vars

-----------------------------------------------------------------------------
(* Claims about categorize_validated_articles, over SpecCategorize.         *)

CategorizeReturned == pc = "categorize_returned"

\* no two articles at distinct positions of articles are duplicate topics
NoDuplicateTopicsIn(articles) ==
    \A i, j \in 1..Len(articles) :
        i # j => ~is_duplicate_topic(articles[i].headline, articles[j].headline)

\* no article of articles is a duplicate topic of an article of others
NoDuplicateTopicsAcross(articles, others) ==
    \A i \in 1..Len(articles) : \A j \in 1..Len(others) :
        ~is_duplicate_topic(articles[i].headline, others[j].headline)

\* C14: for every input of categorize_validated_articles, no two distinct
\* tier 1 candidates are duplicate topics, no two distinct GA candidates
\* are, and no GA candidate is a duplicate topic of a tier 1 candidate.
C14_NoDuplicateTopicsInOutput ==
    CategorizeReturned =>
        /\ NoDuplicateTopicsIn(v_out.tier1_candidates)
        /\ NoDuplicateTopicsIn(v_out.ga_candidates)
        /\ NoDuplicateTopicsAcross(v_out.ga_candidates, v_out.tier1_candidates)

\* an article that repeats the topic of a tier 1 candidate was left out of
\* both lists, which are not empty
C14_RepeatedTopicLeftOut ==
    /\ CategorizeReturned
    /\ Len(v_out.tier1_candidates) >= 2
    /\ Len(v_out.ga_candidates) >= 1
    /\ \E i, j \in 1..Len(v_in) :
          /\ i # j
          /\ is_duplicate_topic(v_in[i].headline, v_in[j].headline)
          /\ v_in[i].url \in UrlsOf(v_out.tier1_candidates)
          /\ v_in[j].url \notin UrlsOf(v_out.tier1_candidates) \cup UrlsOf(v_out.ga_candidates)

\* the articles the topic deduplication removed from the sorted pool
RemovedByTopic(valid_articles) ==
    LET sorted == SortedNonLocal(valid_articles)
        kept == NonLocalPool(valid_articles)
    IN {sorted[i] : i \in {k \in 1..Len(sorted) : ~Contains(kept, sorted[k])}}

SourcesOf(articles) == {articles[i].source : i \in 1..Len(articles)}

\* C16: for every input of categorize_validated_articles, no source
\* appears more than TIER1_SOURCE_CAP (2) times among the tier 1
\* candidates, also when a tech or business article is force-included.
C16_Tier1SourceCap ==
    CategorizeReturned =>
        \A source \in SourcesOf(v_out.tier1_candidates) :
            CountSource(v_out.tier1_candidates, source) <= TIER1_SOURCE_CAP

HasCategory(articles, category) ==
    \E i \in 1..Len(articles) : articles[i].category = category

\* C17: if the deduplicated non-local pool holds a tech (respectively
\* business) article, the tier 1 candidates hold a tech (respectively
\* business) article, and there are at most TIER1_SLOTS (6) of them.
C17_Tier1HasTechAndBusiness ==
    CategorizeReturned =>
        /\ \A category \in {"tech", "business"} :
              HasCategory(NonLocalPool(v_in), category)
                  => HasCategory(v_out.tier1_candidates, category)
        /\ Len(v_out.tier1_candidates) <= TIER1_SLOTS

\* C18: every GA candidate comes from a source that classify_source_tier
\* classifies as eligible (tier 1 or tier 2) for its source name and URL,
\* and no GA candidate is also a tier 1 candidate.
C18_GaFromEligibleSourcesOutsideTier1 ==
    CategorizeReturned =>
        \A i \in 1..Len(v_out.ga_candidates) :
            LET article == v_out.ga_candidates[i]
                tier_info == classify_source_tier(article.source, article.url)
            IN /\ tier_info.ga_eligible
               /\ tier_info.tier \in {1, 2}
               /\ ~Contains(v_out.tier1_candidates, article)
               /\ article.url \notin UrlsOf(v_out.tier1_candidates)

\* the pool holds an article of an ineligible source outside tier 1, and
\* GA candidates were selected
C18_IneligibleSourceLeftOut ==
    /\ CategorizeReturned
    /\ Len(v_out.ga_candidates) >= 1
    /\ LET pool == NonLocalPool(v_in)
       IN \E i \in 1..Len(pool) :
             /\ pool[i].scored
             /\ ~classify_source_tier(pool[i].source, pool[i].url).ga_eligible
             /\ pool[i].url \notin UrlsOf(v_out.tier1_candidates)
             /\ ~Contains(v_out.ga_candidates, pool[i])

\* C19: for every input of categorize_validated_articles, no source
\* appears more than GA_SOURCE_CAP (3) times among the GA candidates, also
\* after the geography pass has replaced articles.
C19_GaSourceCap ==
    CategorizeReturned =>
        \A source \in SourcesOf(v_out.ga_candidates) :
            CountSource(v_out.ga_candidates, source) <= GA_SOURCE_CAP

CountFlag(articles, flag) ==
    Cardinality({i \in 1..Len(articles) : articles[i].flag = flag})

\* the geography pass replaced a US article by an article from beyond the
\* first GA_TARGET, a source has GA_SOURCE_CAP GA candidates, and a further
\* eligible article of it outside tier 1 was left out
C19_SourceAtCapAfterSwap ==
    /\ CategorizeReturned
    /\ LET pool == NonLocalPool(v_in)
           ga_deduped == GaDeduped(pool, v_out.tier1_candidates)
       IN /\ Len(ga_deduped) > GA_TARGET
          /\ CountFlag(Prefix(ga_deduped, GA_TARGET), US_FLAG) > GA_US_CAP
          /\ \E i \in 1..Len(v_out.ga_candidates) :
                Contains(Suffix(ga_deduped, GA_TARGET), v_out.ga_candidates[i])
          /\ \E i \in 1..Len(pool) :
                /\ CountSource(v_out.ga_candidates, pool[i].source) = GA_SOURCE_CAP
                /\ pool[i].ga_eligible
                /\ pool[i].url \notin UrlsOf(v_out.tier1_candidates)
                /\ ~Contains(ga_deduped, pool[i])

FlagsOf(articles) == {articles[i].flag : i \in 1..Len(articles)}

\* an article of the eligible deduplicated pool that is no GA candidate,
\* carries another flag than flag, and whose own flag is below the cap
SubstituteExists(valid_articles, ga_candidates, tier1_candidates, flag) ==
    LET ga_deduped == GaDeduped(NonLocalPool(valid_articles), tier1_candidates)
    IN \E i \in 1..Len(ga_deduped) :
          /\ ~Contains(ga_candidates, ga_deduped[i])
          /\ ga_deduped[i].flag # flag
          /\ CountFlag(ga_candidates, ga_deduped[i].flag) < GA_US_CAP

AllReturned == v_out.tier1_candidates \o v_out.ga_candidates \o v_out.local_candidates

C22_NoDigestEmptyOrNonEnglishReturned ==
    CategorizeReturned =>
        \A i \in 1..Len(AllReturned) :
            /\ AllReturned[i].headline # <<>>
            /\ ~AllReturned[i].url.digest
            /\ ~AllReturned[i].non_english

-----------------------------------------------------------------------------
(* Two calls of classify_source_tier with one URL and two stated source     *)
(* names.                                                                   *)

SourceNames ==
    {"reuters", "axios", "ars technica", "kqed", "substack", "times of israel (afp)",
     "pr newswire", "techcrunch ai"}

InitClassify ==
    /\ PipelineAtRest
    /\ pc = "classify_call"
    /\ v_out = <<>>
    /\ \E name_a \in SourceNames :
       \E name_b \in SourceNames :
       \E remap \in DOMAIN_TO_SOURCE \cup {""} :
          v_in = [name_a |-> name_a, name_b |-> name_b,
                  url |-> [addr |-> 1, digest |-> FALSE, remap |-> remap]]

CallClassify ==
    /\ pc = "classify_call"
    /\ pc' = "classify_returned"
    /\ v_out' = <<classify_source_tier(v_in.name_a, v_in.url),
                  classify_source_tier(v_in.name_b, v_in.url)>>
    /\ UNCHANGED <<clock, delivery_time, max_workers, candidates, pool_vars, gather_vars,
                   raw_results, phase1, v_in>>

NextClassify == CallClassify

SpecClassify == InitClassify /\ [][NextClassify]_vars

\* C23: when the URL matches an entry of the domain remap table, the tier
\* and the eligibility returned are those of the mapped source, and two
\* calls with that URL and different source names return the same.
C23_RemappedDomainDecidesTier ==
    (pc = "classify_returned" /\ v_in.url.remap # "") =>
        /\ v_out[1] = v_out[2]
        /\ v_out[1] = classify_source_tier(v_in.url.remap, [v_in.url EXCEPT !.remap = ""])

-----------------------------------------------------------------------------
(* Further claims about validate_one, over SpecValidate.                    *)

UnresolvedWrapper == v_in.c.wrapper /\ v_in.n.resolve = "unresolved"

\* what the network would answer if validate_one went on to fetch
FetchAnswers ==
    {[v_in.n EXCEPT !.fetch = f] : f \in FetchFailures}
    \cup {[v_in.n EXCEPT !.fetch = "ok", !.page = p] : p \in PoolPages}

\* C24: when the wrapper URL of a candidate cannot be resolved, validate_one
\* returns an error result with the reason 'Could not resolve Google News
\* redirect' at once: no fetch is attempted, so whatever a fetch would be
\* answered makes no difference.
C24_UnresolvedWrapperIsErrorWithoutFetch ==
    (Returned /\ UnresolvedWrapper) =>
        /\ v_out = ErrorOutcome("Could not resolve Google News redirect")
        /\ v_in.n.fetch = "none"
        /\ \A n \in FetchAnswers : ValidateOne(v_in.c, n, v_in.dtime) = v_out

\* the wrapper URL of a candidate with a date hint was not resolved, and the
\* result is the resolution error
C24_UnresolvedWrapperReturned ==
    /\ Returned
    /\ UnresolvedWrapper
    /\ HintYieldsDate
    /\ v_out.category = "error"
    /\ v_out.error = "Could not resolve Google News redirect"

\* C26: the date hint is consulted only when the extraction cascade found
\* no date: when the cascade yields a date, the verdict and the recorded
\* date come from that date alone, whatever the hint, even if the candidate
\* is stale while the hint would make it valid.
C26_HintOnlyWhenCascadeFindsNothing ==
    (Returned /\ FetchSucceeded /\ PageYieldsDate) =>
        /\ v_out.date = extract_publication_date(v_in.n.page, v_in.n.now)
        /\ v_out.date_method = "page"
        /\ v_out = DatedOutcome(v_out.date, "page", v_in.dtime)
        /\ \A h \in AllHints :
              ValidateOne([v_in.c EXCEPT !.hint = h], v_in.n, v_in.dtime) = v_out

\* the cascade's date makes the candidate stale while the hint's date would
\* make it valid
C26_StaleDespiteFreshHint ==
    /\ Returned /\ FetchSucceeded /\ PageYieldsDate
    /\ v_out.category = "stale"
    /\ v_in.c.hint.kind = "iso"
    /\ DatedOutcome(ParseSearchDate(v_in.c.hint, v_in.n.now).d, "search_result_fallback",
                    v_in.dtime).category = "valid"

-----------------------------------------------------------------------------
(* The search collectors of collect_all: _collect_news_search and           *)
(* _collect_local for one query each, then deduplicate_candidates and       *)
(* _validate_concurrent over what they collected.                           *)

MaxResults == 2

WrapperHost == "news.google.com"

\* the URL of the i-th result a backend returns for a query
ResultUrl(wrapper, query, i) ==
    IF wrapper
    THEN <<"https://", WrapperHost, "/rss/articles/", query, ToString(i)>>
    ELSE <<"https://", "e.com/", query, ToString(i)>>

\* "news.google.com" in url
IsWrapperUrl(url) == \E i \in 1..Len(url) : url[i] = WrapperHost

\* the date strings a search result may carry
SearchHints == {EmptyHint, IsoHint(UtcDate(-MinutesPerHour))}

\* the results of one backend for one query: DuckDuckGo returns publisher
\* URLs, the Google News feed returns wrapper URLs
BackendResults(wrapper, query, dates) ==
    [i \in 1..Len(dates) |-> [url |-> ResultUrl(wrapper, query, i), date |-> dates[i]]]

\* results = ddg.news_search(query) if self.ddg and HAS_DDGS;
\* if not results: results = gnews.search(query)
SearchResults(answer) ==
    IF answer.ddg /\ answer.ddg_results # <<>> THEN answer.ddg_results
    ELSE answer.gnews_results

\* the body of "for r in results": a result with a wrapper URL is skipped
RECURSIVE CandidatesOf(_, _, _)
CandidatesOf(results, ddg, is_local) ==
    IF results = <<>> THEN <<>>
    ELSE LET r == Head(results) IN
         IF IsWrapperUrl(r.url)
         THEN CandidatesOf(Tail(results), ddg, is_local)
         ELSE <<[url |-> r.url,
                 collection_method |-> IF ddg THEN "ddg_news" ELSE "google_news_rss",
                 search_date |-> IF is_local THEN EmptyHint ELSE r.date,
                 is_local |-> is_local]>>
              \o CandidatesOf(Tail(results), ddg, is_local)

\* the candidate as validate_one reads it
AsCandidate(cand) == Candidate(IsWrapperUrl(cand.url), cand.search_date)

\* what can happen when a collected candidate is validated: its wrapper URL
\* is not resolved, the fetch fails, or a page with a fresh date is read
SearchAnswers == {"unresolved"} \cup PoolFailures \cup {"ok"}

SearchNet(cand, answer) ==
    LET resolve == IF ~IsWrapperUrl(cand.url) THEN "none"
                   ELSE IF answer = "unresolved" THEN "unresolved" ELSE "decoded"
    IN IF answer = "unresolved" THEN Net(resolve, "none", NoPage, 0)
       ELSE IF answer = "ok"
       THEN Net(resolve, "ok",
                Page(Absent, Dated(UtcDate(-MinutesPerHour)), Absent, Absent), 0)
       ELSE Net(resolve, answer, NoPage, 0)

\* _validate_concurrent over the candidates, nets[i] being the network's
\* answer for the i-th of them
RECURSIVE ValidateFrom(_, _, _, _)
ValidateFrom(cands, nets, i, b) ==
    IF i > Len(cands) THEN b
    ELSE LET res == ValidateOne(AsCandidate(cands[i]), nets[i], 0) IN
         ValidateFrom(cands, nets, i + 1,
                      BucketsWith(b, res.category, [candidate |-> cands[i], res |-> res]))

NoSearch ==
    [results |-> <<>>, search |-> <<>>, local |-> <<>>,
     stats |-> [search_candidates |-> 0, local_candidates |-> 0],
     all_raw |-> <<>>, buckets |-> EmptyBuckets]

InitSearch ==
    /\ pc = "search_call"
    /\ PipelineAtRest
    /\ \E ddg \in BOOLEAN : \E k1, k2, k3, k4 \in 0..MaxResults :
       \E d1 \in [1..k1 -> SearchHints] :
       LET d2 == [i \in 1..k2 |-> IsoHint(UtcDate(-MinutesPerHour))] IN
          v_in = [ddg |-> ddg,
                  search |-> [ddg |-> ddg,
                              ddg_results |-> BackendResults(FALSE, "search", d1),
                              gnews_results |-> BackendResults(TRUE, "search", d2)],
                  local |-> [ddg |-> ddg,
                             ddg_results |->
                                 BackendResults(FALSE, "local", [i \in 1..k3 |-> EmptyHint]),
                             gnews_results |->
                                 BackendResults(TRUE, "local", [i \in 1..k4 |-> EmptyHint])]]
    /\ v_out = NoSearch

\* search = self._collect_news_search()
CollectNewsSearch ==
    /\ pc = "search_call"
    /\ pc' = "local_call"
    /\ LET results == SearchResults(v_in.search) IN
       v_out' = [v_out EXCEPT
                    !.results = results,
                    !.search = CandidatesOf(results, v_in.ddg, FALSE),
                    !.stats.search_candidates = @ + Len(results)]
    /\ UNCHANGED <<clock, delivery_time, max_workers, candidates, pool_vars, gather_vars,
                   raw_results, phase1, v_in>>

\* local = self._collect_local()
CollectLocal ==
    /\ pc = "local_call"
    /\ pc' = "validate_call"
    /\ LET results == SearchResults(v_in.local) IN
       v_out' = [v_out EXCEPT
                    !.results = @ \o results,
                    !.local = CandidatesOf(results, v_in.ddg, TRUE),
                    !.stats.local_candidates = @ + Len(results)]
    /\ UNCHANGED <<clock, delivery_time, max_workers, candidates, pool_vars, gather_vars,
                   raw_results, phase1, v_in>>

\* all_raw = deduplicate_candidates(search + local);
\* validated = self._validate_concurrent(all_raw)
ValidateCollected ==
    /\ pc = "validate_call"
    /\ pc' = "search_returned"
    /\ LET all_raw == deduplicate_candidates(v_out.search \o v_out.local) IN
       \E answers \in [1..Len(all_raw) -> SearchAnswers] :
          /\ \A i \in 1..Len(all_raw) :
                answers[i] = "unresolved" => IsWrapperUrl(all_raw[i].url)
          /\ LET nets == [i \in 1..Len(all_raw) |-> SearchNet(all_raw[i], answers[i])] IN
             v_out' = [v_out EXCEPT
                          !.all_raw = all_raw,
                          !.buckets = ValidateFrom(all_raw, nets, 1, EmptyBuckets)]
    /\ UNCHANGED <<clock, delivery_time, max_workers, candidates, pool_vars, gather_vars,
                   raw_results, phase1, v_in>>

NextSearch == CollectNewsSearch \/ CollectLocal \/ ValidateCollected

SpecSearch == InitSearch /\ [][NextSearch]_vars

SearchReturned == pc = "search_returned"

\* the bucket entries of the result with the URL url
EntriesFor(url) ==
    {e \in UNION {{v_out.buckets[b][i] : i \in 1..Len(v_out.buckets[b])} : b \in BucketNames} :
        e.candidate.url = url}

\* C25: every result with a wrapper URL that a search backend returned is
\* accounted for when collect_all is done: it was validated, or it is in the
\* error bucket with the reason of the failed resolution.
C25_WrapperResultsAccountedFor ==
    SearchReturned =>
        \A i \in 1..Len(v_out.results) :
            IsWrapperUrl(v_out.results[i].url) =>
                \E e \in EntriesFor(v_out.results[i].url) :
                    \/ e.res.category \in {"valid", "stale", "unverified"}
                    \/ e.res.error = "Could not resolve Google News redirect"

-----------------------------------------------------------------------------
(* detect_country_flag: a text is a sequence of words, a keyword of the     *)
(* table a sequence of lower-case words; \b keyword \b matches where the     *)
(* keyword's words occur one after the other as whole words of the text.    *)

MaxTextWords == 3

Keyword(words, chars, flag) == [words |-> words, chars |-> chars, flag |-> flag]

\* entries of COUNTRY_FLAGS in the order of the dict, chars being
\* len(keyword)
COUNTRY_FLAGS ==
    << Keyword(<<"us">>, 2, US_FLAG),
       Keyword(<<"china">>, 5, "CN"),
       Keyword(<<"korea">>, 5, "KR"),
       Keyword(<<"north", "korea">>, 11, "KP"),
       Keyword(<<"pyongyang">>, 9, "KP"),
       Keyword(<<"saudi">>, 5, "SA"),
       Keyword(<<"saudi", "arabia">>, 12, "SA"),
       Keyword(<<"south", "africa">>, 12, "ZA"),
       Keyword(<<"oman">>, 4, "OM") >>

\* str.lower() of one word
Lower(word) ==
    CASE word = "North" -> "north"
      [] word = "Korea" -> "korea"
      [] word = "US" -> "us"
      [] OTHER -> word

\* text.lower()
TextLower(text) == [i \in 1..Len(text) |-> Lower(text[i])]

\* re.search(r'\b' + re.escape(keyword) + r'\b', text_lower)
KeywordOccurs(keyword, text_lower) ==
    \E i \in 1..(Len(text_lower) - Len(keyword.words) + 1) :
        SubSeq(text_lower, i, i + Len(keyword.words) - 1) = keyword.words

\* the loop over COUNTRY_FLAGS.items() from entry k on
RECURSIVE FlagFrom(_, _)
FlagFrom(k, text_lower) ==
    IF k > Len(COUNTRY_FLAGS) THEN US_FLAG
    ELSE IF KeywordOccurs(COUNTRY_FLAGS[k], text_lower) THEN COUNTRY_FLAGS[k].flag
    ELSE FlagFrom(k + 1, text_lower)

detect_country_flag(text) == FlagFrom(1, TextLower(text))

\* the words of the headlines: keywords, a word that contains a keyword,
\* capitalised words and a word of no keyword
TextWords ==
    {"North", "Korea", "north", "korea", "US", "china", "saudi", "arabia", "south",
     "africa", "woman", "talks"}

InitFlag ==
    /\ pc = "flag_call"
    /\ PipelineAtRest
    /\ \E k \in 0..MaxTextWords : \E text \in [1..k -> TextWords] : v_in = text
    /\ v_out = ""

CallDetectCountryFlag ==
    /\ pc = "flag_call"
    /\ pc' = "flag_returned"
    /\ v_out' = detect_country_flag(v_in)
    /\ UNCHANGED <<clock, delivery_time, max_workers, candidates, pool_vars, gather_vars,
                   raw_results, phase1, v_in>>

NextFlag == CallDetectCountryFlag

SpecFlag == InitFlag /\ [][NextFlag]_vars

\* the entries of the table that occur in the text
Occurring(text) ==
    {k \in 1..Len(COUNTRY_FLAGS) : KeywordOccurs(COUNTRY_FLAGS[k], TextLower(text))}

\* C27: detect_country_flag returns the flag of the longest keyword of the
\* table that occurs in the text as a whole word (of 'korea' and 'north
\* korea' the longer one), and the US flag when no keyword occurs.
C27_LongestKeywordDecidesFlag ==
    pc = "flag_returned" =>
        IF Occurring(v_in) = {} THEN v_out = US_FLAG
        ELSE \E k \in Occurring(v_in) :
                /\ \A j \in Occurring(v_in) : COUNTRY_FLAGS[j].chars <= COUNTRY_FLAGS[k].chars
                /\ v_out = COUNTRY_FLAGS[k].flag

-----------------------------------------------------------------------------
(* A further claim about _is_duplicate_topic, over SpecTopic.               *)

\* C28: _is_duplicate_topic is symmetric: the answer for (a, b) is the
\* answer for (b, a), so a duplicate check does not depend on which of the
\* two headlines was selected first.
C28_DuplicateTopicSymmetric ==
    pc = "topic_returned" => v_out = is_duplicate_topic(v_in.b, v_in.a)

\* two headlines of different lengths are duplicates by the coverage of the
\* shorter one only, the longer one given first
C28_LongerFirstDuplicateByCoverage ==
    /\ pc = "topic_returned"
    /\ v_out
    /\ Cardinality(normalize_words(v_in.a)) > Cardinality(normalize_words(v_in.b))
    /\ 100 * Cardinality(normalize_words(v_in.a) \cap normalize_words(v_in.b))
          < JACCARD_PERCENT * Cardinality(normalize_words(v_in.a) \cup normalize_words(v_in.b))

-----------------------------------------------------------------------------
(* The social-post sweep: _collect_noteworthy_x hands every sighting        *)
(* (url, title) of its search responses to _process_x_result. Times are in  *)
(* hours; a status id carries the hour of its post above its low bits.      *)

MaxSightings == 3

X_POST_MAX_AGE_HOURS == 72
X_POST_MIN_TITLE_LEN == 50
X_POST_MAX_CANDIDATES == 4
X_POST_MAX_PER_HANDLE == 2

SnowflakeShift == 22

FROM_X_BRAND_ACCOUNTS == {"OpenAI"}

\* the delivery time of the sweep
SweepNow == 100

\* the status id of the seq-th post of the hour
StatusId(hour, seq) == hour * 2^SnowflakeShift + seq

\* _snowflake_to_datetime: status_id >> 22
snowflake_to_datetime(status_id) == status_id \div 2^SnowflakeShift

\* a search result or a URL found in a text block; has_status says whether
\* the URL has the form x.com/<handle>/status/<digits>
Sighting(has_status, handle, status_id, title_len) ==
    [has_status |-> has_status, handle |-> handle, status_id |-> status_id,
     title_len |-> title_len]

\* len("(from text)"), the title given to a URL found in a text block
FromTextLen == 11

NoSightings == [seen_status_ids |-> {}, handles_with_results |-> {}, all_posts |-> <<>>]

\* _process_x_result(url, title, now, seen_status_ids, handles_with_results,
\* all_posts): sw holds the three collections before, the result after
process_x_result(sw, sighting, now) ==
    LET post_time == snowflake_to_datetime(sighting.status_id)
        age_hours == now - post_time
        seen == [sw EXCEPT !.seen_status_ids = @ \cup {sighting.status_id}]
    IN IF ~sighting.has_status THEN sw
       ELSE IF sighting.handle \in FROM_X_BRAND_ACCOUNTS THEN sw
       ELSE IF sighting.status_id \in sw.seen_status_ids THEN sw
       ELSE IF age_hours > X_POST_MAX_AGE_HOURS \/ age_hours < -1 THEN seen
       ELSE IF sighting.title_len # 0 /\ sighting.title_len < X_POST_MIN_TITLE_LEN THEN seen
       ELSE [seen EXCEPT
               !.handles_with_results = @ \cup {sighting.handle},
               !.all_posts = Append(@, [handle |-> sighting.handle,
                                        status_id |-> sighting.status_id,
                                        age_hours |-> age_hours])]

\* the sightings of a sweep processed in the order given
RECURSIVE ProcessFrom(_, _, _)
ProcessFrom(sightings, sw, now) ==
    IF sightings = <<>> THEN sw
    ELSE ProcessFrom(Tail(sightings), process_x_result(sw, Head(sightings), now), now)

\* the loop that enforces the cap per handle
RECURSIVE CapPerHandle(_, _)
CapPerHandle(posts, kept) ==
    IF posts = <<>> THEN kept
    ELSE LET h == Head(posts).handle
             count == 1 + Cardinality({i \in 1..Len(kept) : kept[i].handle = h})
         IN CapPerHandle(Tail(posts),
                         IF count <= X_POST_MAX_PER_HANDLE THEN Append(kept, Head(posts))
                         ELSE kept)

\* all_posts.sort(key=age_hours), the cap per handle, then the global cap
SweepCandidates(all_posts) ==
    LET sorted == StableSort(all_posts, [i \in 1..Len(all_posts) |-> <<all_posts[i].age_hours>>])
        filtered == CapPerHandle(sorted, <<>>)
    IN SubSeq(filtered, 1, Min(X_POST_MAX_CANDIDATES, Len(filtered)))

\* the sightings a response may hold: a URL that is no status URL, a post of
\* a brand account, and posts of a person: two fresh ones with a long, a
\* short, an empty and the text-block title, a stale one and a future one
SightingChoices ==
    { Sighting(FALSE, "karpathy", StatusId(SweepNow - 10, 1), 60),
      Sighting(TRUE, "OpenAI", StatusId(SweepNow - 10, 2), 60),
      Sighting(TRUE, "karpathy", StatusId(SweepNow - X_POST_MAX_AGE_HOURS - 1, 1), 60),
      Sighting(TRUE, "karpathy", StatusId(SweepNow + 2, 1), 60) }
    \cup { Sighting(TRUE, "karpathy", StatusId(SweepNow - h, 1), t) :
              h \in {10, X_POST_MAX_AGE_HOURS}, t \in {0, FromTextLen, 60} }

InitSweep ==
    /\ pc = "sweep_loop"
    /\ PipelineAtRest
    /\ \E k \in 0..MaxSightings : \E sightings \in [1..k -> SightingChoices] :
          v_in = sightings
    /\ v_out = [next |-> 1, sw |-> NoSightings, candidates |-> <<>>]

\* self._process_x_result(url, title, now, seen_status_ids,
\* handles_with_results, all_posts) for the next sighting
ProcessXResult ==
    /\ pc = "sweep_loop"
    /\ v_out.next <= Len(v_in)
    /\ v_out' = [v_out EXCEPT !.next = @ + 1,
                              !.sw = process_x_result(@, v_in[v_out.next], SweepNow)]
    /\ UNCHANGED <<pc, clock, delivery_time, max_workers, candidates, pool_vars, gather_vars,
                   raw_results, phase1, v_in>>

\* the end of _collect_noteworthy_x
ReturnSweep ==
    /\ pc = "sweep_loop"
    /\ v_out.next > Len(v_in)
    /\ pc' = "sweep_returned"
    /\ v_out' = [v_out EXCEPT !.candidates = SweepCandidates(v_out.sw.all_posts)]
    /\ UNCHANGED <<clock, delivery_time, max_workers, candidates, pool_vars, gather_vars,
                   raw_results, phase1, v_in>>

NextSweep == ProcessXResult \/ ReturnSweep

SpecSweep == InitSweep /\ [][NextSweep]_vars

\* the status ids of the posts accepted into all_posts
AcceptedIds(sw) == {sw.all_posts[i].status_id : i \in 1..Len(sw.all_posts)}

\* C29: the set of status ids accepted into all_posts in one sweep is the
\* same for every order in which the sweep's sightings are processed.
C29_AcceptedIdsSameInEveryOrder ==
    pc = "sweep_returned" =>
        \A order \in Permutations(1..Len(v_in)) :
            AcceptedIds(ProcessFrom([i \in 1..Len(v_in) |-> v_in[order[i]]],
                                    NoSightings, SweepNow))
                = AcceptedIds(v_out.sw)

-----------------------------------------------------------------------------
(* Step 2 of run_phase2_llm: a So What for every tier 1 story, one retry    *)
(* after a failed generation, removal of the stories without a usable So    *)
(* What, and the renumbering of the others.                                 *)

MaxStories == 3

FailureMarker == "[So What generation failed - review manually]"

RefusalText == "I cannot provide an analysis without the full article"

PlainText == "This directly impacts your plans"

\* what client._call does for one request: it raises, or returns a text
LlmAnswers == {"raises", RefusalText, PlainText}

\* generate_so_what: the text of the model, or the marker when the call
\* raised
generate_so_what(answer) == IF answer = "raises" THEN FailureMarker ELSE answer

\* so_what.startswith("[So What generation failed")
StartsWithFailed(so_what) == so_what = FailureMarker

\* _is_llm_refusal(so_what)
is_llm_refusal(so_what) == so_what = RefusalText

\* a retry after every unusable So What, a refusal as well
NeedsRetry_AlsoRefusal(so_what) == StartsWithFailed(so_what) \/ is_llm_refusal(so_what)

\* the quality gate before the retry
NeedsRetry(so_what) == StartsWithFailed(so_what)

\* the test that marks a story for removal
Unusable(so_what) == StartsWithFailed(so_what) \/ is_llm_refusal(so_what)

\* the story dict _try_summarize builds for the article tried as story_num
Story(story_num) ==
    [number |-> story_num, url |-> <<"https://e.com/", ToString(story_num)>>, so_what |-> ""]

\* list.remove(x): s without its first element equal to x
RECURSIVE ListRemove(_, _)
ListRemove(s, x) ==
    IF s = <<>> THEN <<>>
    ELSE IF Head(s) = x THEN Tail(s)
    ELSE <<Head(s)>> \o ListRemove(Tail(s), x)

\* for story in stories_to_remove: tier1_stories.remove(story)
RECURSIVE RemoveAll(_, _)
RemoveAll(stories, to_remove) ==
    IF to_remove = <<>> THEN stories
    ELSE RemoveAll(ListRemove(stories, Head(to_remove)), Tail(to_remove))

\* for i, story in enumerate(tier1_stories, 1): story["number"] = i
Renumber(stories) == [i \in 1..Len(stories) |-> [stories[i] EXCEPT !.number = i]]

\* the stories of step 1: the articles whose summary was accepted, in the
\* order tried, numbered by the count of articles tried so far
RECURSIVE StoriesOf(_, _)
StoriesOf(accepted, story_num) ==
    IF story_num > MaxStories THEN <<>>
    ELSE (IF story_num \in accepted THEN <<Story(story_num)>> ELSE <<>>)
         \o StoriesOf(accepted, story_num + 1)

InitSoWhat ==
    /\ pc = "so_what_loop"
    /\ PipelineAtRest
    /\ \E accepted \in SUBSET (1..MaxStories) : v_in = StoriesOf(accepted, 1)
    /\ v_out = [tier1_stories |-> v_in,
                idx |-> 1,
                stage |-> "generate",
                so_what |-> "",
                attempts |-> [i \in 1..Len(v_in) |-> <<>>],
                stories_to_remove |-> <<>>]

\* so_what = generate_so_what(client, {...}, story["summary"])
GenerateSoWhat ==
    /\ pc = "so_what_loop"
    /\ v_out.idx <= Len(v_in)
    /\ v_out.stage = "generate"
    /\ \E answer \in LlmAnswers :
          v_out' = [v_out EXCEPT
                       !.so_what = generate_so_what(answer),
                       !.attempts[v_out.idx] = Append(@, generate_so_what(answer)),
                       !.stage = "gate"]
    /\ UNCHANGED <<pc, clock, delivery_time, max_workers, candidates, pool_vars, gather_vars,
                   raw_results, phase1, v_in>>

\* the quality gate: if so_what.startswith("[So What generation failed"),
\* generate_so_what is called once more
RetrySoWhat ==
    /\ pc = "so_what_loop"
    /\ v_out.stage = "gate"
    /\ NeedsRetry(v_out.so_what)
    /\ \E answer \in LlmAnswers :
          v_out' = [v_out EXCEPT
                       !.so_what = generate_so_what(answer),
                       !.attempts[v_out.idx] = Append(@, generate_so_what(answer)),
                       !.stage = "judge"]
    /\ UNCHANGED <<pc, clock, delivery_time, max_workers, candidates, pool_vars, gather_vars,
                   raw_results, phase1, v_in>>

\* the story is marked for removal or gets its So What
JudgeSoWhat ==
    /\ pc = "so_what_loop"
    /\ \/ v_out.stage = "judge"
       \/ v_out.stage = "gate" /\ ~NeedsRetry(v_out.so_what)
    /\ v_out' = [v_out EXCEPT
                    !.stories_to_remove =
                        IF Unusable(v_out.so_what)
                        THEN Append(@, v_out.tier1_stories[v_out.idx]) ELSE @,
                    !.tier1_stories[v_out.idx].so_what =
                        IF Unusable(v_out.so_what) THEN @ ELSE v_out.so_what,
                    !.idx = @ + 1,
                    !.stage = "generate"]
    /\ UNCHANGED <<pc, clock, delivery_time, max_workers, candidates, pool_vars, gather_vars,
                   raw_results, phase1, v_in>>

\* the stories marked are removed and the others renumbered
RemoveAndRenumber ==
    /\ pc = "so_what_loop"
    /\ v_out.idx > Len(v_in)
    /\ pc' = "so_what_done"
    /\ v_out' = [v_out EXCEPT
                    !.tier1_stories = Renumber(RemoveAll(@, v_out.stories_to_remove))]
    /\ UNCHANGED <<clock, delivery_time, max_workers, candidates, pool_vars, gather_vars,
                   raw_results, phase1, v_in>>

NextSoWhat == GenerateSoWhat \/ RetrySoWhat \/ JudgeSoWhat \/ RemoveAndRenumber

SpecSoWhat == InitSoWhat /\ [][NextSoWhat]_vars

\* the last So What generated for the i-th story of step 1
FinalSoWhat(i) == v_out.attempts[i][Len(v_out.attempts[i])]

\* the places of the stories of step 1 whose final So What is usable
RECURSIVE Survivors(_)
Survivors(i) ==
    IF i > Len(v_in) THEN <<>>
    ELSE (IF StartsWithFailed(FinalSoWhat(i)) \/ is_llm_refusal(FinalSoWhat(i))
          THEN <<>> ELSE <<i>>) \o Survivors(i + 1)

\* C30: the So What of a story is generated at most twice, the second time
\* only after the failure marker; a story is in the output tier1_stories
\* exactly if its final So What is neither the failure marker nor a
\* refusal; the survivors are numbered 1..n in their original order.
C30_OneRetryThenDropAndRenumber ==
    /\ \A i \in 1..Len(v_in) :
          /\ Len(v_out.attempts[i]) <= 2
          /\ Len(v_out.attempts[i]) = 2 => StartsWithFailed(v_out.attempts[i][1])
    /\ pc = "so_what_done" =>
          /\ Len(v_out.tier1_stories) = Len(Survivors(1))
          /\ \A k \in 1..Len(v_out.tier1_stories) :
                /\ v_out.tier1_stories[k].url = v_in[Survivors(1)[k]].url
                /\ v_out.tier1_stories[k].so_what = FinalSoWhat(Survivors(1)[k])
                /\ v_out.tier1_stories[k].number = k

\* a story was dropped after a refusal that was not retried, and a later
\* story was kept after one retry and got a new number
C30_RetriedStoryKeptAndRenumbered ==
    /\ pc = "so_what_done"
    /\ \E i, j \in 1..Len(v_in) :
          /\ i < j
          /\ v_out.attempts[i] = <<RefusalText>>
          /\ v_out.attempts[j] = <<FailureMarker, PlainText>>
          /\ \E k \in 1..Len(v_out.tier1_stories) :
                /\ v_out.tier1_stories[k].url = v_in[j].url
                /\ v_out.tier1_stories[k].number # v_in[j].number

====
